---- MODULE Spec2Model ----
(***************************************************************************)
(* A model of blib2to3/pgen2/tokenize.py: the pattern library, the line    *)
(* driven tokenizer generate_tokens, the Untokenizer and detect_encoding.  *)
(*                                                                         *)
(* Text is a sequence of one-character strings.  Positions are 0-based as  *)
(* in the source; Slice(s, a, b) is Python's s[a:b].                        *)
(***************************************************************************)
EXTENDS Integers, Sequences, FiniteSets, TLC

(***************************************************************************)
(* Bounds of the model.                                                    *)
(***************************************************************************)
\* the line source delivers at most MaxLines lines before it reports EOF,
\* and at most MaxFstringLines lines where the lines are those of strings or
\* of f-strings, or where the consumer keeps the whole text
MaxLines == 3
MaxFstringLines == 2
\* a line of the line source is made of at most MaxWords words
MaxWords == 3

(***************************************************************************)
(* Text helpers (Python's str operations).                                 *)
(***************************************************************************)
Min(a, b) == IF a < b THEN a ELSE b
Max(a, b) == IF a > b THEN a ELSE b

\* s[a:b] for 0 <= a, with Python's clamping of the bounds
Slice(s, a, b) ==
    LET lo == Min(Max(a, 0), Len(s))
        hi == Min(Max(b, 0), Len(s))
    IN  IF hi <= lo THEN <<>> ELSE SubSeq(s, lo + 1, hi)

\* s[i] for an index inside the text, "" past its end (a regex sees end of text)
At(s, i) == IF 0 <= i /\ i < Len(s) THEN s[i + 1] ELSE ""

\* s.startswith(p, i)
StartsWithAt(s, i, p) == Slice(s, i, i + Len(p)) = p /\ Len(p) <= Len(s) - i

\* s.endswith(p)
EndsWith(s, p) == Len(p) <= Len(s) /\ Slice(s, Len(s) - Len(p), Len(s)) = p

\* " " * n
RECURSIVE Spaces(_)
Spaces(n) == IF n <= 0 THEN <<>> ELSE <<" ">> \o Spaces(n - 1)

\* s.rstrip("\r\n")
RECURSIVE RStripNewline(_)
RStripNewline(s) ==
    IF Len(s) > 0 /\ s[Len(s)] \in {"\r", "\n"}
    THEN RStripNewline(SubSeq(s, 1, Len(s) - 1))
    ELSE s

(***************************************************************************)
(* Pattern library.  Every recognizer takes the text and the position to   *)
(* match at and returns the end of the match, or -1 when it does not match *)
(* (the regular expressions are deterministic: ordered alternation, greedy *)
(* repetition).                                                            *)
(***************************************************************************)
NoMatch == -1

WhitespaceChars == {" ", "\f", "\t"}
\* \s of the regular expressions
SpaceChars == {" ", "\f", "\t", "\n", "\r"}
\* \d, for texts that hold no "0" (see Number)
Digits == {"1", "2", "3", "4", "5", "6", "7", "8", "9"}
NameExcluded ==
    SpaceChars \cup
    {"#", "(", ")", "[", "]", "{", "}", "+", "-", "*", "/", "!", "@", "$", "%",
     "^", "&", "=", "|", ";", ":", "'", "\"", ",", ".", "<", ">", "?", "~",
     "\\"}

\* Whitespace = [ \f\t]*
RECURSIVE Whitespace(_, _)
Whitespace(s, i) ==
    IF At(s, i) \in WhitespaceChars THEN Whitespace(s, i + 1) ELSE i

\* Comment = #[^\r\n]*
RECURSIVE CommentTail(_, _)
CommentTail(s, i) ==
    IF i < Len(s) /\ At(s, i) \notin {"\r", "\n"} THEN CommentTail(s, i + 1) ELSE i
Comment(s, i) == IF At(s, i) = "#" THEN CommentTail(s, i + 1) ELSE NoMatch

\* Name = one or more characters outside NameExcluded
RECURSIVE NameTail(_, _)
NameTail(s, i) ==
    IF i < Len(s) /\ At(s, i) \notin NameExcluded THEN NameTail(s, i + 1) ELSE i
NameFrom(i, e) == IF e > i THEN e ELSE NoMatch
Name(s, i) == NameFrom(i, NameTail(s, i))

\* \d+ : the end of the run of digits at i (i itself when there is none)
RECURSIVE DigitRun(_, _)
DigitRun(s, i) == IF At(s, i) \in Digits THEN DigitRun(s, i + 1) ELSE i

\* Number = group(Imagnumber, Floatnumber, Intnumber), for texts whose digits
\* are 1..9 and that hold none of . _ j J l L E + - : what is left of it is
\* Expfloat = \d+[eE]\d+ (tried first) and Decnumber = [1-9]\d*
\* d is the end of the first run of digits, e of the run after the letter
NumberFrom(s, i, d, e) ==
    IF d = i THEN NoMatch
    ELSE IF At(s, d) = "e" /\ e > d + 1 THEN e
    ELSE d
NumberAfter(s, i, d) == NumberFrom(s, i, d, DigitRun(s, d + 1))
Number(s, i) == NumberAfter(s, i, DigitRun(s, i))

\* Operator, longest operators first
Operator(s, i) ==
    LET c == At(s, i)
        d == At(s, i + 1)
        e == At(s, i + 2)
        opt(n) == IF At(s, i + n) = "=" THEN i + n + 1 ELSE i + n
    IN  IF c = "*" /\ d = "*" THEN opt(2)
        ELSE IF c = ">" /\ d = ">" THEN opt(2)
        ELSE IF c = "<" /\ d = "<" THEN opt(2)
        ELSE IF c = "<" /\ d = ">" THEN i + 2
        ELSE IF c = "!" /\ d = "=" THEN i + 2
        ELSE IF c = "/" /\ d = "/" THEN opt(2)
        ELSE IF c = "-" /\ d = ">" THEN i + 2
        ELSE IF c \in {"+", "-", "*", "/", "%", "&", "@", "|", "^", "=", "<", ">", ":"}
             THEN opt(1)
        ELSE IF c = "~" THEN i + 1
        ELSE NoMatch

\* Bracket = [][(){}]
Bracket(s, i) ==
    IF At(s, i) \in {"[", "]", "(", ")", "{", "}"} THEN i + 1 ELSE NoMatch

\* Special = group(\r?\n, one of : ; . , @) (the backtick, which no text of
\* the model holds, is left out here and in NameExcluded)
Special(s, i) ==
    IF At(s, i) = "\r" /\ At(s, i + 1) = "\n" THEN i + 2
    ELSE IF At(s, i) = "\n" THEN i + 1
    ELSE IF At(s, i) \in {":", ";", ".", ",", "@"} THEN i + 1
    ELSE NoMatch

\* group(A, B): A if it matches, else B
Group2(a, b) == IF a # NoMatch THEN a ELSE b

\* Funny = group(Operator, Bracket, Special)
Funny(s, i) == Group2(Operator(s, i), Group2(Bracket(s, i), Special(s, i)))

\* \\\r?\n
ContinuationNewline(s, i) ==
    IF At(s, i) = "\\" /\ At(s, i + 1) = "\n" THEN i + 2
    ELSE IF At(s, i) = "\\" /\ At(s, i + 1) = "\r" /\ At(s, i + 2) = "\n" THEN i + 3
    ELSE NoMatch

\* \\. : a backslash and any character but a newline
Escape(s, i) ==
    At(s, i) = "\\" /\ i + 1 < Len(s) /\ At(s, i + 1) # "\n"

(***************************************************************************)
(* String bodies.  q is the quote character, ' or ".                       *)
(***************************************************************************)
\* Single, Double = [^q\\]*(?:\\.[^q\\]*)*q
RECURSIVE Single(_, _, _)
Single(q, s, i) ==
    IF i >= Len(s) THEN NoMatch
    ELSE IF At(s, i) = q THEN i + 1
    ELSE IF At(s, i) = "\\"
         THEN IF Escape(s, i) THEN Single(q, s, i + 2) ELSE NoMatch
    ELSE Single(q, s, i + 1)

\* SingleLbrace, DoubleLbrace = [^q\\{]*(?:(?:\\.|{{)[^q\\{]*)*{(?!{)
RECURSIVE SingleLbrace(_, _, _)
SingleLbrace(q, s, i) ==
    IF i >= Len(s) THEN NoMatch
    ELSE IF At(s, i) = q THEN NoMatch
    ELSE IF At(s, i) = "\\"
         THEN IF Escape(s, i) THEN SingleLbrace(q, s, i + 2) ELSE NoMatch
    ELSE IF At(s, i) = "{"
         THEN IF At(s, i + 1) = "{" THEN SingleLbrace(q, s, i + 2) ELSE i + 1
    ELSE SingleLbrace(q, s, i + 1)

\* Single3, Double3 = [^q\\]*(?:(?:\\.|q(?!qq))[^q\\]*)*qqq
RECURSIVE Single3(_, _, _)
Single3(q, s, i) ==
    IF i >= Len(s) THEN NoMatch
    ELSE IF At(s, i) = q
         THEN IF At(s, i + 1) = q /\ At(s, i + 2) = q THEN i + 3
              ELSE Single3(q, s, i + 1)
    ELSE IF At(s, i) = "\\"
         THEN IF Escape(s, i) THEN Single3(q, s, i + 2) ELSE NoMatch
    ELSE Single3(q, s, i + 1)

\* Single3Lbrace, Double3Lbrace = [^q\\{]*(?:(?:\\.|{{|q(?!qq))[^q\\{]*)*{(?!{)
RECURSIVE Single3Lbrace(_, _, _)
Single3Lbrace(q, s, i) ==
    IF i >= Len(s) THEN NoMatch
    ELSE IF At(s, i) = q
         THEN IF At(s, i + 1) = q /\ At(s, i + 2) = q THEN NoMatch
              ELSE Single3Lbrace(q, s, i + 1)
    ELSE IF At(s, i) = "\\"
         THEN IF Escape(s, i) THEN Single3Lbrace(q, s, i + 2) ELSE NoMatch
    ELSE IF At(s, i) = "{"
         THEN IF At(s, i + 1) = "{" THEN Single3Lbrace(q, s, i + 2) ELSE i + 1
    ELSE Single3Lbrace(q, s, i + 1)

\* _string_middle_single/double followed by group(q, \\\r?\n): the rest of
\* the first (or only) line of a ' or " string
RECURSIVE StringMiddle(_, _, _)
StringMiddle(q, s, i) ==
    IF i >= Len(s) THEN NoMatch
    ELSE IF At(s, i) = q THEN i + 1
    ELSE IF At(s, i) = "\n" THEN NoMatch
    ELSE IF At(s, i) = "\\"
         THEN IF ContinuationNewline(s, i) # NoMatch THEN ContinuationNewline(s, i)
              ELSE IF Escape(s, i) THEN StringMiddle(q, s, i + 2)
              ELSE NoMatch
    ELSE StringMiddle(q, s, i + 1)

\* _fstring_middle_single/double = [^\nq\\{]*(?:(?:\\.|{{)[^\nq\\{]*)*({)(?!{)
RECURSIVE FstringMiddle(_, _, _)
FstringMiddle(q, s, i) ==
    IF i >= Len(s) THEN NoMatch
    ELSE IF At(s, i) \in {q, "\n"} THEN NoMatch
    ELSE IF At(s, i) = "\\"
         THEN IF Escape(s, i) THEN FstringMiddle(q, s, i + 2) ELSE NoMatch
    ELSE IF At(s, i) = "{"
         THEN IF At(s, i + 1) = "{" THEN FstringMiddle(q, s, i + 2) ELSE i + 1
    ELSE FstringMiddle(q, s, i + 1)

Quotes == {"'", "\""}

\* _litprefix = (?:[uUrRbB]|[rR][bB]|[bBuU][rR])? , the empty prefix included
LitPrefixes ==
    {<<>>} \cup
    {<<c>> : c \in {"u", "U", "r", "R", "b", "B"}} \cup
    {<<c, d>> : c \in {"r", "R"}, d \in {"b", "B"}} \cup
    {<<c, d>> : c \in {"b", "B", "u", "U"}, d \in {"r", "R"}}

\* _strprefixes = _combinations("r", "R", "b", "B") | {"u", "U", "ur", "uR", "Ur", "UR"}
StrPrefixes ==
    {<<c>> : c \in {"r", "R", "b", "B", "u", "U"}} \cup
    {<<c, d>> : c \in {"r", "R"}, d \in {"b", "B"}} \cup
    {<<c, d>> : c \in {"b", "B"}, d \in {"r", "R"}} \cup
    {<<c, d>> : c \in {"u", "U"}, d \in {"r", "R"}}

\* _fstringlitprefix = (?:rF|FR|Fr|fr|RF|F|rf|f|Rf|fR) , which is also
\* _fstring_prefixes = _combinations("r", "R", "f", "F") - {"r", "R"}
FstringPrefixes ==
    {<<c>> : c \in {"f", "F"}} \cup
    {<<c, d>> : c \in {"r", "R"}, d \in {"f", "F"}} \cup
    {<<c, d>> : c \in {"f", "F"}, d \in {"r", "R"}}

\* the lengths of the prefixes of _litprefix (the empty one included) that
\* stand at i
LitPrefixLens(s, i) ==
    {n \in 0..2 : Slice(s, i, i + n) \in LitPrefixes /\ i + n <= Len(s)}

\* the lengths of the prefixes of _fstringlitprefix that stand at i
FstringPrefixLens(s, i) ==
    {n \in 1..2 : Slice(s, i, i + n) \in FstringPrefixes /\ i + n <= Len(s)}

\* the end of prefix + opener at i, for a prefix length of lens (at most one
\* fits, since no prefix holds a quote), opener being q or qqq
OpenerEnd(lens, opener, s, i) ==
    LET fits == {n \in lens : StartsWithAt(s, i + n, opener)}
    IN  IF fits = {} THEN NoMatch
        ELSE i + (CHOOSE n \in fits : TRUE) + Len(opener)

\* Triple = group(_litprefix + qqq, _fstringlitprefix + qqq) for both quotes
Triple(s, i) ==
    LET lens == LitPrefixLens(s, i) \cup FstringPrefixLens(s, i)
        a == OpenerEnd(lens, <<"'", "'", "'">>, s, i)
        b == OpenerEnd(lens, <<"\"", "\"", "\"">>, s, i)
    IN  IF a # NoMatch THEN a ELSE b

\* ContStr: the six alternatives in order.  The result holds the end of the
\* match and, for the alternatives that capture the f-string opener (groups
\* 20, 22, 24, 26 of pseudoprog), that group number and the end of that group.
NoContStr == [end |-> NoMatch, fgroup |-> 0, fend |-> NoMatch]

\* the body of one alternative after its opener, which ends at o: e is the end
\* of the body
ContStrBody(o, e, fgroup) ==
    IF o = NoMatch \/ e = NoMatch THEN NoContStr
    ELSE [end |-> e, fgroup |-> fgroup, fend |-> IF fgroup = 0 THEN NoMatch ELSE o]

\* one alternative: the opener (o is its end), then the body up to the closing
\* quote or the backslash-newline, or, if lbrace, up to the first single {
ContStrFrom(o, q, fgroup, lbrace, s) ==
    ContStrBody(o,
                IF o = NoMatch THEN NoMatch
                ELSE IF lbrace THEN FstringMiddle(q, s, o) ELSE StringMiddle(q, s, o),
                fgroup)

ContStrAlt(lens, q, fgroup, lbrace, s, i) ==
    ContStrFrom(OpenerEnd(lens, <<q>>, s, i), q, fgroup, lbrace, s)

\* A | B for two alternatives of ContStr
ContStrOr(a, b) == IF a.end # NoMatch THEN a ELSE b

ContStr(s, i) ==
    ContStrOr(ContStrAlt(LitPrefixLens(s, i), "'", 0, FALSE, s, i),
    ContStrOr(ContStrAlt(LitPrefixLens(s, i), "\"", 0, FALSE, s, i),
    ContStrOr(ContStrAlt(FstringPrefixLens(s, i), "'", 20, TRUE, s, i),
    ContStrOr(ContStrAlt(FstringPrefixLens(s, i), "\"", 22, TRUE, s, i),
    ContStrOr(ContStrAlt(FstringPrefixLens(s, i), "'", 24, FALSE, s, i),
              ContStrAlt(FstringPrefixLens(s, i), "\"", 26, FALSE, s, i))))))

\* PseudoExtras = group(\\\r?\n, Comment, Triple)
PseudoExtras(s, i) ==
    Group2(ContinuationNewline(s, i), Group2(Comment(s, i), Triple(s, i)))

\* pseudoprog.match(line, pos), PseudoToken = Whitespace +
\* group(PseudoExtras, Number, Funny, ContStr, Name).  matched: whether it
\* matches; mstart: pseudomatch.start(); start, end: pseudomatch.span(1);
\* fgroup, fend: the f-string opener group that took part and its end.
\* The alternatives are tried in order: first is the end of the match of
\* group(PseudoExtras, Number, Funny), c the match of ContStr, name of Name.
PseudoGroup(pos, w, first, c, name) ==
    LET viaContStr == first = NoMatch /\ c.end # NoMatch
        e == Group2(first, Group2(c.end, name))
    IN  [matched |-> e # NoMatch, mstart |-> pos, start |-> w, end |-> e,
         fgroup |-> IF viaContStr THEN c.fgroup ELSE 0,
         fend |-> IF viaContStr THEN c.fend ELSE NoMatch]

PseudoToken(s, pos, w) ==
    PseudoGroup(pos, w,
                Group2(PseudoExtras(s, w), Group2(Number(s, w), Funny(s, w))),
                ContStr(s, w), Name(s, w))

pseudoprog(s, pos) == PseudoToken(s, pos, Whitespace(s, pos))

\* endprog.match(line, pos), for the terminator recognizer of that name
EndprogMatch(endprog, s, pos) ==
    CASE endprog = "singleprog" -> Single("'", s, pos)
      [] endprog = "doubleprog" -> Single("\"", s, pos)
      [] endprog = "singleprog_plus_lbrace" ->
            Group2(SingleLbrace("'", s, pos), Single("'", s, pos))
      [] endprog = "doubleprog_plus_lbrace" ->
            Group2(SingleLbrace("\"", s, pos), Single("\"", s, pos))
      [] endprog = "single3prog" -> Single3("'", s, pos)
      [] endprog = "double3prog" -> Single3("\"", s, pos)
      [] endprog = "single3prog_plus_lbrace" ->
            Group2(Single3Lbrace("'", s, pos), Single3("'", s, pos))
      [] endprog = "double3prog_plus_lbrace" ->
            Group2(Single3Lbrace("\"", s, pos), Single3("\"", s, pos))

\* endprogs.get(key): the recognizer for an opener (prefix and quotes), or
\* "None" when the key is not in the table
endprogs(key) ==
    LET n == Len(key)
        q3(q) == <<q, q, q>>
        isTriple(q) == n >= 3 /\ Slice(key, n - 3, n) = q3(q)
        isSingle(q) == n >= 1 /\ key[n] = q /\ ~isTriple(q)
        prefix(k) == Slice(key, 0, n - k)
        plain == {<<>>} \cup StrPrefixes
    IN  IF isTriple("'") /\ prefix(3) \in plain THEN "single3prog"
        ELSE IF isTriple("\"") /\ prefix(3) \in plain THEN "double3prog"
        ELSE IF isTriple("'") /\ prefix(3) \in FstringPrefixes THEN "single3prog_plus_lbrace"
        ELSE IF isTriple("\"") /\ prefix(3) \in FstringPrefixes THEN "double3prog_plus_lbrace"
        ELSE IF isSingle("'") /\ prefix(1) \in plain THEN "singleprog"
        ELSE IF isSingle("\"") /\ prefix(1) \in plain THEN "doubleprog"
        ELSE IF isSingle("'") /\ prefix(1) \in FstringPrefixes THEN "singleprog_plus_lbrace"
        ELSE IF isSingle("\"") /\ prefix(1) \in FstringPrefixes THEN "doubleprog_plus_lbrace"
        ELSE "None"

\* token in triple_quoted
triple_quoted(token) ==
    /\ Len(token) >= 3
    /\ \E q \in Quotes : Slice(token, Len(token) - 3, Len(token)) = <<q, q, q>>
    /\ Slice(token, 0, Len(token) - 3) \in ({<<>>} \cup StrPrefixes \cup FstringPrefixes)

\* key in single_quoted
single_quoted(key) ==
    /\ Len(key) >= 1
    /\ key[Len(key)] \in Quotes
    /\ Slice(key, 0, Len(key) - 1) \in ({<<>>} \cup StrPrefixes \cup FstringPrefixes)

(***************************************************************************)
(* Tokens and the state of one pass of generate_tokens.                    *)
(***************************************************************************)
\* a token: the five-tuple (type, string, start, end, line)
Tok(type, string, start, end, line) ==
    [type |-> type, string |-> string, start |-> start, end |-> end, line |-> line]

\* "async", "await", "def", "for" as texts
AsyncText == <<"a", "s", "y", "n", "c">>
AwaitText == <<"a", "w", "a", "i", "t">>
DefText == <<"d", "e", "f">>
ForText == <<"f", "o", "r">>

tabsize == 8
numchars == {"0", "1", "2", "3", "4", "5", "6", "7", "8", "9"}

\* str.isidentifier() of one character of the texts of the model (ASCII)
isidentifier(c) ==
    c \in {"a", "b", "c", "d", "e", "f", "g", "h", "i", "j", "k", "l", "m", "n",
           "o", "p", "q", "r", "s", "t", "u", "v", "w", "x", "y", "z", "_",
           "A", "B", "C", "D", "E", "F", "G", "H", "I", "J", "K", "L", "M", "N",
           "O", "P", "Q", "R", "S", "T", "U", "V", "W", "X", "Y", "Z"}

\* a local variable that has no value yet (strstart before its first assignment)
Unbound == <<>>

NoError == [kind |-> "None", msg |-> "", at |-> <<>>]

\* the yields of a step are collected in out, in order
Yield(s, tok) == [s EXCEPT !.out = Append(@, tok)]

\* raise: the pass ends in the error state; what was yielded before stays
Raise(s, kind, msg, at) ==
    [s EXCEPT !.pc = "error", !.err = [kind |-> kind, msg |-> msg, at |-> at]]

\* if stashed: yield stashed; stashed = None
FlushStashed(s) ==
    IF s.stashed # <<>>
    THEN [s EXCEPT !.out = @ \o s.stashed, !.stashed = <<>>]
    ELSE s

\* the while loop over the line goes on while pos < max, then the next line is read
AfterToken(s) == [s EXCEPT !.pc = IF s.pos < Len(s.line) THEN "scan" ELSE "readline"]

\* the state at the start of generate_tokens
InitialState(async_keywords) ==
    [lnum |-> 0, parenlev |-> 0, fstring_level |-> 0, continued |-> 0,
     inside_fstring_braces |-> FALSE, contstr |-> <<>>, needcont |-> 0,
     contline |-> <<>>, indents |-> <<0>>, async_keywords |-> async_keywords,
     stashed |-> <<>>, async_def |-> FALSE, async_def_indent |-> 0,
     async_def_nl |-> FALSE, strstart |-> Unbound, endprog_stack |-> <<>>,
     line |-> <<>>, pos |-> 0, pc |-> "readline", err |-> NoError, out |-> <<>>]

(***************************************************************************)
(* The top of the loop over lines: what is done with a line just read,     *)
(* before the scan of its tokens.                                          *)
(***************************************************************************)
\* contstr, needcont = "", 0; contline = None
ContstrCleared(t) == [t EXCEPT !.contstr = <<>>, !.needcont = 0, !.contline = <<>>]

\* a line of a pending string; end is the end of endmatch =
\* endprog.match(line), or NoMatch
ContinuedStringEnd(s, end) ==
    LET line == s.line
        lnum == s.lnum
        token == s.contstr \o Slice(line, 0, end)
        spos == s.strstart
        epos == <<lnum, end>>
        tokenline == s.contline \o line
    IN
    IF end # NoMatch THEN
        IF s.strstart = Unbound
        THEN Raise(s, "UnboundLocalError", "strstart", <<>>)
        ELSE
        LET s1 == [s EXCEPT !.pos = end] IN
        IF s.fstring_level = 0
        THEN AfterToken(ContstrCleared(Yield(s1, Tok("STRING", token, spos, epos, tokenline))))
        ELSE
        LET s2 == Yield(s1, Tok("FSTRING_MIDDLE", token, spos, epos, tokenline)) IN
        IF EndsWith(token, <<"{">>)
        THEN AfterToken(ContstrCleared(
                [Yield(s2, Tok("LBRACE", <<"{">>, spos, epos, tokenline))
                    EXCEPT !.inside_fstring_braces = TRUE]))
        ELSE AfterToken(ContstrCleared(
                [Yield(s2, Tok("FSTRING_END", <<token[Len(token)]>>, spos, epos, tokenline))
                    EXCEPT !.fstring_level = @ - 1,
                           !.endprog_stack = SubSeq(@, 1, Len(@) - 1)]))
    ELSE IF /\ s.needcont # 0
            /\ Slice(line, Len(line) - 2, Len(line)) # <<"\\", "\n">>
            /\ Slice(line, Len(line) - 3, Len(line)) # <<"\\", "\r", "\n">>
    THEN
        IF s.strstart = Unbound
        THEN Raise(s, "UnboundLocalError", "strstart", <<>>)
        ELSE [Yield(s, Tok("ERRORTOKEN", s.contstr \o line, s.strstart,
                           <<lnum, Len(line)>>, s.contline))
                EXCEPT !.contstr = <<>>, !.contline = <<>>, !.pc = "readline"]
    ELSE [s EXCEPT !.contstr = @ \o line, !.contline = @ \o line, !.pc = "readline"]

\* contstr and not inside_fstring_braces: the line continues a pending string
ContinuedString(s) ==
    IF s.line = <<>> THEN
        IF s.strstart = Unbound
        THEN Raise(s, "UnboundLocalError", "strstart", <<>>)
        ELSE Raise(s, "TokenError", "EOF in multi-line string", s.strstart)
    ELSE IF s.endprog_stack = <<>> THEN
        Raise(s, "IndexError", "list index out of range", <<>>)
    ELSE ContinuedStringEnd(s, EndprogMatch(s.endprog_stack[Len(s.endprog_stack)], s.line, 0))

\* measure leading whitespace: the [column, pos] reached from [column, pos]
RECURSIVE MeasureIndent(_, _, _)
MeasureIndent(line, column, pos) ==
    IF pos >= Len(line) THEN [column |-> column, pos |-> pos]
    ELSE IF line[pos + 1] = " " THEN MeasureIndent(line, column + 1, pos + 1)
    ELSE IF line[pos + 1] = "\t"
         THEN MeasureIndent(line, ((column \div tabsize) + 1) * tabsize, pos + 1)
    ELSE IF line[pos + 1] = "\f" THEN MeasureIndent(line, 0, pos + 1)
    ELSE [column |-> column, pos |-> pos]

\* if async_def and [async_def_nl and] async_def_indent >= indents[-1]: leave
\* the async def
LeaveAsyncDef(s, needs_nl) ==
    IF /\ s.async_def
       /\ (needs_nl => s.async_def_nl)
       /\ s.async_def_indent >= s.indents[Len(s.indents)]
    THEN [s EXCEPT !.async_def = FALSE, !.async_def_nl = FALSE, !.async_def_indent = 0]
    ELSE s

\* CountDedents with a plausible fault: the levels above column are popped
\* without the test that column is a level of the stack
RECURSIVE CountDedentsUnchecked(_, _, _)
CountDedentsUnchecked(s, column, pos) ==
    IF ~(column < s.indents[Len(s.indents)]) THEN s
    ELSE
    LET popped == [s EXCEPT !.indents = SubSeq(@, 1, Len(@) - 1)]
        left == LeaveAsyncDef(popped, FALSE)
    IN  CountDedentsUnchecked(
            Yield(left, Tok("DEDENT", <<>>, <<s.lnum, pos>>, <<s.lnum, pos>>, s.line)),
            column, pos)

\* while column < indents[-1]: the dedents of a new statement at column
RECURSIVE CountDedents(_, _, _)
CountDedents(s, column, pos) ==
    IF ~(column < s.indents[Len(s.indents)]) THEN s
    ELSE IF \A k \in 1..Len(s.indents) : s.indents[k] # column
    THEN Raise(s, "IndentationError",
               "unindent does not match any outer indentation level", <<s.lnum, pos>>)
    ELSE
    LET popped == [s EXCEPT !.indents = SubSeq(@, 1, Len(@) - 1)]
        left == LeaveAsyncDef(popped, FALSE)
    IN  CountDedents(Yield(left, Tok("DEDENT", <<>>, <<s.lnum, pos>>, <<s.lnum, pos>>, s.line)),
                     column, pos)

\* NewStatement with a plausible fault: a statement at the column of the top
\* of the stack pushes a level too
NewStatementPushingEqual(s) ==
    LET line == s.line
        lnum == s.lnum
        m == MeasureIndent(line, 0, 0)
        column == m.column
        pos == m.pos
    IN
    IF line = <<>> THEN [s EXCEPT !.pc = "eos"]
    ELSE IF pos = Len(line) THEN [s EXCEPT !.pos = pos, !.pc = "eos"]
    ELSE
    LET s1 == FlushStashed([s EXCEPT !.pos = pos]) IN
    IF line[pos + 1] \in {"\r", "\n"} THEN
        [Yield(s1, Tok("NL", Slice(line, pos, Len(line)), <<lnum, pos>>,
                       <<lnum, Len(line)>>, line))
            EXCEPT !.pc = "readline"]
    ELSE IF line[pos + 1] = "#" THEN
        LET comment_token == RStripNewline(Slice(line, pos, Len(line)))
            nl_pos == pos + Len(comment_token)
        IN  [Yield(Yield(s1, Tok("COMMENT", comment_token, <<lnum, pos>>,
                                 <<lnum, nl_pos>>, line)),
                   Tok("NL", Slice(line, nl_pos, Len(line)), <<lnum, nl_pos>>,
                       <<lnum, Len(line)>>, line))
                EXCEPT !.pc = "readline"]
    ELSE
    LET s2 == IF column >= s1.indents[Len(s1.indents)]
              THEN Yield([s1 EXCEPT !.indents = Append(@, column)],
                         Tok("INDENT", Slice(line, 0, pos), <<lnum, 0>>, <<lnum, pos>>, line))
              ELSE s1
        s3 == CountDedents(s2, column, pos)
    IN  IF s3.pc = "error" THEN s3
        ELSE AfterToken(LeaveAsyncDef(s3, TRUE))

\* NewStatement with a plausible fault: a comment line is not skipped but
\* taken for a statement
NewStatementCountingComments(s) ==
    LET line == s.line
        lnum == s.lnum
        m == MeasureIndent(line, 0, 0)
        column == m.column
        pos == m.pos
    IN
    IF line = <<>> THEN [s EXCEPT !.pc = "eos"]
    ELSE IF pos = Len(line) THEN [s EXCEPT !.pos = pos, !.pc = "eos"]
    ELSE
    LET s1 == FlushStashed([s EXCEPT !.pos = pos]) IN
    IF line[pos + 1] \in {"\r", "\n"} THEN
        [Yield(s1, Tok("NL", Slice(line, pos, Len(line)), <<lnum, pos>>,
                       <<lnum, Len(line)>>, line))
            EXCEPT !.pc = "readline"]
    ELSE IF FALSE THEN
        LET comment_token == RStripNewline(Slice(line, pos, Len(line)))
            nl_pos == pos + Len(comment_token)
        IN  [Yield(Yield(s1, Tok("COMMENT", comment_token, <<lnum, pos>>,
                                 <<lnum, nl_pos>>, line)),
                   Tok("NL", Slice(line, nl_pos, Len(line)), <<lnum, nl_pos>>,
                       <<lnum, Len(line)>>, line))
                EXCEPT !.pc = "readline"]
    ELSE
    LET s2 == IF column > s1.indents[Len(s1.indents)]
              THEN Yield([s1 EXCEPT !.indents = Append(@, column)],
                         Tok("INDENT", Slice(line, 0, pos), <<lnum, 0>>, <<lnum, pos>>, line))
              ELSE s1
        s3 == CountDedents(s2, column, pos)
    IN  IF s3.pc = "error" THEN s3
        ELSE AfterToken(LeaveAsyncDef(s3, TRUE))

\* parenlev == 0 and not continued and not inside_fstring_braces: the line
\* starts a new statement
NewStatement(s) ==
    LET line == s.line
        lnum == s.lnum
        m == MeasureIndent(line, 0, 0)
        column == m.column
        pos == m.pos
    IN
    IF line = <<>> THEN [s EXCEPT !.pc = "eos"]
    ELSE IF pos = Len(line) THEN [s EXCEPT !.pos = pos, !.pc = "eos"]
    ELSE
    LET s1 == FlushStashed([s EXCEPT !.pos = pos]) IN
    IF line[pos + 1] \in {"\r", "\n"} THEN
        [Yield(s1, Tok("NL", Slice(line, pos, Len(line)), <<lnum, pos>>,
                       <<lnum, Len(line)>>, line))
            EXCEPT !.pc = "readline"]
    ELSE IF line[pos + 1] = "#" THEN
        LET comment_token == RStripNewline(Slice(line, pos, Len(line)))
            nl_pos == pos + Len(comment_token)
        IN  [Yield(Yield(s1, Tok("COMMENT", comment_token, <<lnum, pos>>,
                                 <<lnum, nl_pos>>, line)),
                   Tok("NL", Slice(line, nl_pos, Len(line)), <<lnum, nl_pos>>,
                       <<lnum, Len(line)>>, line))
                EXCEPT !.pc = "readline"]
    ELSE
    LET s2 == IF column > s1.indents[Len(s1.indents)]
              THEN Yield([s1 EXCEPT !.indents = Append(@, column)],
                         Tok("INDENT", Slice(line, 0, pos), <<lnum, 0>>, <<lnum, pos>>, line))
              ELSE s1
        s3 == CountDedents(s2, column, pos)
    IN  IF s3.pc = "error" THEN s3
        ELSE AfterToken(LeaveAsyncDef(s3, TRUE))

\* ContinuedStatement with a plausible fault: the end of the input inside a
\* statement is taken for the end of the stream
ContinuedStatementEndingAtEof(s) ==
    IF s.line = <<>>
    THEN [s EXCEPT !.pc = "eos"]
    ELSE AfterToken([s EXCEPT !.continued = 0])

\* else: the line continues a statement
ContinuedStatement(s) ==
    IF s.line = <<>>
    THEN Raise(s, "TokenError", "EOF in multi-line statement", <<s.lnum, 0>>)
    ELSE AfterToken([s EXCEPT !.continued = 0])

\* ReadLineStep with a plausible fault: a line read inside the braces of an
\* f-string is taken for a new statement
ReadLineStepIgnoringBraces(s, line) ==
    LET s0 == [s EXCEPT !.line = line, !.lnum = @ + 1, !.pos = 0, !.out = <<>>] IN
    IF s0.contstr # <<>> /\ ~s0.inside_fstring_braces THEN ContinuedString(s0)
    ELSE IF s0.parenlev = 0 /\ s0.continued = 0
    THEN NewStatement(s0)
    ELSE ContinuedStatement(s0)

\* one turn of the loop over lines, up to the scan of the line: line is
\* what readline returned ("" at the end of the input)
ReadLineStep(s, line) ==
    LET s0 == [s EXCEPT !.line = line, !.lnum = @ + 1, !.pos = 0, !.out = <<>>] IN
    IF s0.contstr # <<>> /\ ~s0.inside_fstring_braces THEN ContinuedString(s0)
    ELSE IF s0.parenlev = 0 /\ s0.continued = 0 /\ ~s0.inside_fstring_braces
    THEN NewStatement(s0)
    ELSE ContinuedStatement(s0)

(***************************************************************************)
(* The scan of a line: one turn of the loop while pos < max.               *)
(***************************************************************************)
\* the text of the innermost f-string from pos on; end is the end of the match
\* of its terminator recognizer, endprog.match(line, pos)
FstringTextEnd(s0, end) ==
    LET line == s0.line
        lnum == s0.lnum
        pos == s0.pos
        token == Slice(line, pos, end)
        middle_token == Slice(token, 0, Len(token) - 1)
        end_token == <<token[Len(token)]>>
        s1 == Yield(FlushStashed(s0),
                    Tok("FSTRING_MIDDLE", middle_token, <<lnum, pos>>, <<lnum, end - 1>>, line))
    IN
    IF end # NoMatch THEN
        IF ~EndsWith(token, <<"{">>)
        THEN [st |-> [Yield(s1, Tok("FSTRING_END", end_token, <<lnum, end - 1>>,
                                    <<lnum, end>>, line))
                        EXCEPT !.fstring_level = @ - 1,
                               !.endprog_stack = SubSeq(@, 1, Len(@) - 1),
                               !.pos = end],
              brk |-> FALSE]
        ELSE [st |-> [Yield(s1, Tok("LBRACE", <<"{">>, <<lnum, 0>>, <<lnum, 0>>, line))
                        EXCEPT !.inside_fstring_braces = TRUE, !.pos = end],
              brk |-> FALSE]
    ELSE [st |-> [s0 EXCEPT !.contstr = @ \o line, !.contline = line, !.pc = "readline"],
          brk |-> TRUE]

\* if fstring_level > 0 and not inside_fstring_braces: the literal text of the
\* innermost f-string.  The field brk of the result says that the loop over
\* the line was left (break).
FstringText(s) ==
    IF ~(s.fstring_level > 0 /\ ~s.inside_fstring_braces)
    THEN [st |-> [s EXCEPT !.out = <<>>], brk |-> FALSE]
    ELSE IF s.endprog_stack = <<>>
    THEN [st |-> Raise([s EXCEPT !.out = <<>>], "IndexError", "list index out of range", <<>>),
          brk |-> TRUE]
    ELSE FstringTextEnd([s EXCEPT !.out = <<>>],
                        EndprogMatch(s.endprog_stack[Len(s.endprog_stack)], s.line, s.pos))

\* NEWLINE, or NL when parenlev > 0 or inside_fstring_braces
NewlineKind(parenlev, inside_fstring_braces) ==
    IF parenlev > 0 \/ inside_fstring_braces THEN "NL" ELSE "NEWLINE"

\* initial in "\r\n": the line terminator
ScanNewline(s, token, spos, epos) ==
    LET newline == NewlineKind(s.parenlev, s.inside_fstring_braces)
        s1 == IF newline = "NEWLINE" /\ s.async_def
              THEN [s EXCEPT !.async_def_nl = TRUE] ELSE s
    IN  Yield(FlushStashed(s1), Tok(newline, token, spos, epos, s.line))

\* yield FSTRING_START; fstring_level += 1; endprog_stack.append(endprog)
StartFstring(s, token, spos, epos, endprog) ==
    [Yield(s, Tok("FSTRING_START", token, spos, epos, s.line))
        EXCEPT !.fstring_level = @ + 1, !.endprog_stack = Append(@, endprog)]

\* endmatch = endprog.match(line, pos) after the opener of a triple-quoted
\* string: e is its end, s1 the state it is taken in (for an f-string, after
\* its FSTRING_START), isf whether the opener starts with f
TripleEndmatch(s1, start, end, isf, e) ==
    LET line == s1.line
        lnum == s1.lnum
        spos == <<lnum, start>>
        epos == <<lnum, end>>
        tok == Slice(line, s1.pos, e)
        spos2 == <<lnum, s1.pos>>
        epos2 == <<lnum, e>>
    IN
    IF e # NoMatch THEN
        IF ~isf
        THEN [Yield(FlushStashed(s1), Tok("STRING", Slice(line, start, e), spos, epos, line))
                 EXCEPT !.pos = e]
        ELSE
        IF ~EndsWith(tok, <<"{">>)
        THEN [Yield(Yield(FlushStashed(s1),
                          Tok("FSTRING_MIDDLE", Slice(tok, 0, Len(tok) - 3), spos2,
                              <<lnum, e - 3>>, line)),
                    Tok("FSTRING_END", Slice(tok, Len(tok) - 3, Len(tok)), <<lnum, e - 3>>,
                        epos2, line))
                 EXCEPT !.fstring_level = @ - 1,
                        !.endprog_stack = SubSeq(@, 1, Len(@) - 1),
                        !.pos = e]
        ELSE [Yield(Yield(FlushStashed(s1),
                          Tok("FSTRING_MIDDLE", Slice(tok, 0, Len(tok) - 1), spos2,
                              <<lnum, e - 1>>, line)),
                    Tok("LBRACE", <<tok[Len(tok)]>>, <<lnum, e - 1>>, epos2, line))
                 EXCEPT !.inside_fstring_braces = TRUE, !.pos = e]
    ELSE [s1 EXCEPT !.strstart = spos, !.contstr = Slice(line, start, Len(line)),
                    !.contline = line, !.pc = "readline"]

\* the opener of a triple-quoted string, endprog being endprogs[token]
ScanTripleWith(s, token, start, end, endprog) ==
    TripleEndmatch(IF StartsWithAt(token, 0, <<"f">>)
                   THEN StartFstring(s, token, <<s.lnum, start>>, <<s.lnum, end>>, endprog)
                   ELSE s,
                   start, end, StartsWithAt(token, 0, <<"f">>),
                   EndprogMatch(endprog, s.line, s.pos))

\* token in triple_quoted: the opener of a triple-quoted string.  start and
\* end are the span of the opener; s.pos is already end.
ScanTriple(s, token, start, end) == ScanTripleWith(s, token, start, end, endprogs(token))

\* endprogs.get(initial) or endprogs.get(token[:2]) or endprogs.get(token[:3])
FirstEndprog(a, b, c) == IF a # "None" THEN a ELSE IF b # "None" THEN b ELSE c
MaybeEndprog(token) ==
    FirstEndprog(endprogs(Slice(token, 0, 1)), endprogs(Slice(token, 0, 2)),
                 endprogs(Slice(token, 0, 3)))

\* offset = pseudomatch.end(g) - pseudomatch.start(), g the f-string opener
\* group (20, 22, 24 or 26) that matched
FstringStartOffset(m) == m.fend - m.mstart

\* token.startswith("f"): the one-line f-string; s1 is the state after the
\* stashed token was yielded, endprog is endprogs[fstring_start]
SingleFstring(s1, token, m, endprog) ==
    LET line == s1.line
        lnum == s1.lnum
        start == m.start
        end == m.end
        spos == <<lnum, start>>
        fstring_start == Slice(line, start, m.fend)
        offset == FstringStartOffset(m)
        start_epos == <<lnum, start + offset>>
        end_offset == end - 1
        fstring_middle == Slice(line, start + offset, end_offset)
        s3 == Yield(StartFstring(s1, fstring_start, spos, start_epos, endprog),
                    Tok("FSTRING_MIDDLE", fstring_middle, <<lnum, start + offset>>,
                        <<lnum, end_offset>>, line))
    IN
    IF ~EndsWith(token, <<"{">>)
    THEN [Yield(s3, Tok("FSTRING_END", <<token[Len(token)]>>, <<lnum, end_offset>>,
                        <<lnum, end_offset + 1>>, line))
             EXCEPT !.fstring_level = @ - 1, !.endprog_stack = SubSeq(@, 1, Len(@) - 1)]
    ELSE [Yield(s3, Tok("LBRACE", <<"{">>, <<lnum, end_offset>>, <<lnum, end_offset + 1>>,
                        line))
             EXCEPT !.inside_fstring_braces = TRUE]

\* the first or only line of a ' or " string; m is the pseudomatch and
\* maybe_endprog the recognizer found for the opener
ScanSingleWith(s, token, m, maybe_endprog) ==
    LET line == s.line
        lnum == s.lnum
        start == m.start
        end == m.end
        spos == <<lnum, start>>
        epos == <<lnum, end>>
    IN
    IF maybe_endprog = "None"
    THEN Raise(s, "AssertionError", "endprog not found", <<>>)
    ELSE IF token[Len(token)] = "\n" THEN
        [s EXCEPT !.endprog_stack = Append(@, maybe_endprog), !.strstart = spos,
                  !.contstr = Slice(line, start, Len(line)), !.needcont = 1,
                  !.contline = line, !.pc = "readline"]
    ELSE
    IF ~StartsWithAt(token, 0, <<"f">>)
    THEN Yield(FlushStashed(s), Tok("STRING", token, spos, epos, line))
    ELSE SingleFstring(FlushStashed(s), token, m, endprogs(Slice(line, start, m.fend)))

ScanSingle(s, token, m) == ScanSingleWith(s, token, m, MaybeEndprog(token))

\* if token in ("def", "for") and the stashed token is the NAME async: it is
\* yielded as ASYNC, and def starts an async def
PromoteStashed(s, token) ==
    [Yield(IF token = DefText
           THEN [s EXCEPT !.async_def = TRUE,
                          !.async_def_indent = s.indents[Len(s.indents)]]
           ELSE s,
           [s.stashed[1] EXCEPT !.type = "ASYNC"])
        EXCEPT !.stashed = <<>>]

\* initial.isidentifier(): an ordinary name, with the async/await handling
ScanName(s, token, spos, epos) ==
    LET line == s.line
        tok == Tok("NAME", token, spos, epos, line)
        stashedAsync == /\ s.stashed # <<>>
                        /\ s.stashed[1].type = "NAME"
                        /\ s.stashed[1].string = AsyncText
    IN
    IF token \in {AsyncText, AwaitText} /\ (s.async_keywords \/ s.async_def)
    THEN Yield(s, Tok(IF token = AsyncText THEN "ASYNC" ELSE "AWAIT", token, spos, epos, line))
    ELSE IF token = AsyncText /\ s.stashed = <<>>
    THEN [s EXCEPT !.stashed = <<tok>>]
    ELSE Yield(FlushStashed(IF token \in {DefText, ForText} /\ stashedAsync
                            THEN PromoteStashed(s, token) ELSE s),
               tok)

\* the remaining operators and brackets
ScanOp(s, token, initial, spos, epos) ==
    Yield(FlushStashed(IF initial \in {"(", "[", "{"} THEN [s EXCEPT !.parenlev = @ + 1]
                       ELSE IF initial \in {")", "]", "}"} THEN [s EXCEPT !.parenlev = @ - 1]
                       ELSE s),
          Tok("OP", token, spos, epos, s.line))

\* the branches on the token of the pseudomatch m; s.pos is already its end
ScanBranch(s, m, token, initial, spos, epos) ==
    LET line == s.line
        lnum == s.lnum
    IN  IF initial \in numchars \/ (initial = "." /\ token # <<".">>)
           THEN Yield(s, Tok("NUMBER", token, spos, epos, line))
        ELSE IF initial \in {"\r", "\n"} THEN ScanNewline(s, token, spos, epos)
        ELSE IF initial = "#"
           THEN Yield(FlushStashed(s), Tok("COMMENT", token, spos, epos, line))
        ELSE IF triple_quoted(token) THEN ScanTriple(s, token, m.start, m.end)
        ELSE IF \/ single_quoted(<<initial>>)
                \/ single_quoted(Slice(token, 0, 2))
                \/ single_quoted(Slice(token, 0, 3))
           THEN ScanSingle(s, token, m)
        ELSE IF isidentifier(initial) THEN ScanName(s, token, spos, epos)
        ELSE IF initial = "\\"
           THEN [Yield(FlushStashed(s), Tok("NL", token, spos, <<lnum, m.end>>, line))
                    EXCEPT !.continued = 1]
        ELSE IF initial = "}" /\ s.parenlev = 0 /\ s.inside_fstring_braces
           THEN [Yield(s, Tok("RBRACE", token, spos, epos, line))
                    EXCEPT !.inside_fstring_braces = FALSE]
        ELSE ScanOp(s, token, initial, spos, epos)

\* after a branch: the loop over the line goes on unless it was left
AfterBranch(r) == IF r.pc \in {"error", "readline"} THEN r ELSE AfterToken(r)

\* ScanPseudomatch with a plausible fault: after the ERRORTOKEN the position
\* is not advanced
ScanPseudomatchStuck(s, m) ==
    IF ~m.matched THEN
        IF s.pos >= Len(s.line)
        THEN Raise(s, "IndexError", "string index out of range", <<>>)
        ELSE AfterToken(Yield(s, Tok("ERRORTOKEN", <<s.line[s.pos + 1]>>, <<s.lnum, s.pos>>,
                                     <<s.lnum, s.pos + 1>>, s.line)))
    ELSE AfterBranch(ScanBranch([s EXCEPT !.pos = m.end], m,
                                Slice(s.line, m.start, m.end), s.line[m.start + 1],
                                <<s.lnum, m.start>>, <<s.lnum, m.end>>))

\* if pseudomatch: ... else: the ERRORTOKEN of one character
ScanPseudomatch(s, m) ==
    IF ~m.matched THEN
        IF s.pos >= Len(s.line)
        THEN Raise(s, "IndexError", "string index out of range", <<>>)
        ELSE AfterToken([Yield(s, Tok("ERRORTOKEN", <<s.line[s.pos + 1]>>, <<s.lnum, s.pos>>,
                                      <<s.lnum, s.pos + 1>>, s.line))
                            EXCEPT !.pos = @ + 1])
    ELSE AfterBranch(ScanBranch([s EXCEPT !.pos = m.end], m,
                                Slice(s.line, m.start, m.end), s.line[m.start + 1],
                                <<s.lnum, m.start>>, <<s.lnum, m.end>>))

\* pseudomatch = pseudoprog.match(line, pos) and what follows it
ScanToken(s) == ScanPseudomatch(s, pseudoprog(s.line, s.pos))

\* the scan after the f-string text f: the loop was left, or goes on to the
\* pseudomatch
ScanAfterFstringText(f) == IF f.brk THEN f.st ELSE ScanToken(f.st)

\* one turn of the loop while pos < max
ScanStep(s) == ScanAfterFstringText(FstringText(s))

\* PopIndents with a plausible fault: one DEDENT for all the levels left
PopIndentsOnce(s, n) ==
    IF n <= 0 THEN s
    ELSE Yield(s, Tok("DEDENT", <<>>, <<s.lnum, 0>>, <<s.lnum, 0>>, <<>>))

\* for _indent in indents[1:]: a DEDENT for each of the n levels left
RECURSIVE PopIndents(_, _)
PopIndents(s, n) ==
    IF n <= 0 THEN s
    ELSE PopIndents(Yield(s, Tok("DEDENT", <<>>, <<s.lnum, 0>>, <<s.lnum, 0>>, <<>>)), n - 1)

\* EndOfStream with a plausible fault: the ENDMARKER comes before the DEDENTs
EndOfStreamMarkerFirst(s) ==
    [PopIndents(Yield(FlushStashed([s EXCEPT !.out = <<>>]),
                      Tok("ENDMARKER", <<>>, <<s.lnum, 0>>, <<s.lnum, 0>>, <<>>)),
                Len(s.indents) - 1)
        EXCEPT !.pc = "done"]

\* EndOfStream with a plausible fault: the stashed token is not yielded
EndOfStreamKeepingStash(s) ==
    LET s1 == [s EXCEPT !.out = <<>>]
        s2 == PopIndents(s1, Len(s1.indents) - 1)
    IN  [Yield(s2, Tok("ENDMARKER", <<>>, <<s.lnum, 0>>, <<s.lnum, 0>>, <<>>))
            EXCEPT !.pc = "done"]

\* after the loop over lines: the stashed token, the DEDENTs, the ENDMARKER
EndOfStream(s) ==
    LET s1 == FlushStashed([s EXCEPT !.out = <<>>])
        s2 == PopIndents(s1, Len(s1.indents) - 1)
    IN  [Yield(s2, Tok("ENDMARKER", <<>>, <<s.lnum, 0>>, <<s.lnum, 0>>, <<>>))
            EXCEPT !.pc = "done"]

\* the whole pass over the lines of a text, as the list of what it yields;
\* lines ends with the empty line if the line source reports EOF
RECURSIVE RunFrom(_, _, _)
RunFrom(s, lines, acc) ==
    IF s.pc = "done" \/ s.pc = "error" THEN [tokens |-> acc, err |-> s.err, final |-> s]
    ELSE IF s.pc = "eos"
         THEN LET n == EndOfStream(s) IN RunFrom(n, lines, acc \o n.out)
    ELSE IF s.pc = "scan"
         THEN LET n == ScanStep(s) IN RunFrom(n, lines, acc \o n.out)
    ELSE LET ln == IF lines = <<>> THEN <<>> ELSE Head(lines)
             n == ReadLineStep(s, ln)
         IN  RunFrom(n, IF lines = <<>> THEN <<>> ELSE Tail(lines), acc \o n.out)

generate_tokens(lines, async_keywords) == RunFrom(InitialState(async_keywords), lines, <<>>)

(***************************************************************************)
(* The Untokenizer, fed one token at a time (untokenize consumes the       *)
(* generator lazily).                                                      *)
(***************************************************************************)
\* Untokenizer.__init__; failed records the AssertionError of add_whitespace
NewUntokenizer == [tokens |-> <<>>, prev_row |-> 1, prev_col |-> 0, failed |-> FALSE]

\* Untokenizer.add_whitespace followed by the rest of the loop body of
\* Untokenizer.untokenize, for a five-tuple t
UntokenizeToken(u, t) ==
    LET row == t.start[1]
        col == t.start[2]
        col_offset == col - u.prev_col
        padded == IF col_offset # 0 THEN u.tokens \o Spaces(col_offset) ELSE u.tokens
    IN  IF u.failed THEN u
        ELSE IF ~(row <= u.prev_row) THEN [u EXCEPT !.failed = TRUE]
        ELSE [tokens |-> padded \o t.string,
              prev_row |-> IF t.type \in {"NEWLINE", "NL"} THEN t.end[1] + 1 ELSE t.end[1],
              prev_col |-> IF t.type \in {"NEWLINE", "NL"} THEN 0 ELSE t.end[2],
              failed |-> FALSE]

RECURSIVE UntokenizeAll(_, _)
UntokenizeAll(u, toks) ==
    IF toks = <<>> THEN u ELSE UntokenizeAll(UntokenizeToken(u, Head(toks)), Tail(toks))

(***************************************************************************)
(* Untokenizer.compat: untokenize fed with (type, string) pairs.  The      *)
(* pairs are given as a list, as in the docstring of untokenize, so the    *)
(* loop of compat starts again at the first pair.                          *)
(***************************************************************************)
\* the (type, string) projection of a list of tokens
Project(toks) == [i \in 1..Len(toks) |-> <<toks[i].type, toks[i].string>>]

\* the state of compat before its loop; pairs is what it was given so far,
\* failed records the IndexError of indents.pop()
NewCompat ==
    [tokens |-> <<>>, startline |-> FALSE, indents |-> <<>>, failed |-> FALSE,
     pairs |-> <<>>]

\* one turn of the loop of compat, for the pair made of token t; the first
\* pair has set startline before the loop if it is a NEWLINE or NL
CompatToken(u, t) ==
    LET tokval == IF t.type \in {"NAME", "NUMBER", "ASYNC", "AWAIT"}
                  THEN t.string \o <<" ">> ELSE t.string
        u0 == [u EXCEPT !.pairs = Append(@, <<t.type, t.string>>),
                        !.startline = @ \/ (u.pairs = <<>> /\ t.type \in {"NEWLINE", "NL"})]
    IN  IF u.failed THEN u
        ELSE IF t.type = "INDENT" THEN [u0 EXCEPT !.indents = Append(@, tokval)]
        ELSE IF t.type = "DEDENT" THEN
            IF u0.indents = <<>> THEN [u0 EXCEPT !.failed = TRUE]
            ELSE [u0 EXCEPT !.indents = SubSeq(@, 1, Len(@) - 1)]
        ELSE IF t.type \in {"NEWLINE", "NL"}
        THEN [u0 EXCEPT !.startline = TRUE, !.tokens = @ \o tokval]
        ELSE IF u0.startline /\ u0.indents # <<>>
        THEN [u0 EXCEPT !.startline = FALSE,
                        !.tokens = @ \o u0.indents[Len(u0.indents)] \o tokval]
        ELSE [u0 EXCEPT !.tokens = @ \o tokval]

RECURSIVE CompatAll(_, _)
CompatAll(u, toks) ==
    IF toks = <<>> THEN u ELSE CompatAll(CompatToken(u, Head(toks)), Tail(toks))

\* text.splitlines(True) for a text whose only line boundary is "\n"
RECURSIVE SplitLines(_, _)
SplitLines(text, from) ==
    IF from >= Len(text) THEN <<>>
    ELSE LET ends == {i \in (from + 1)..Len(text) : text[i] = "\n"}
             stop == IF ends = {} THEN Len(text)
                     ELSE CHOOSE i \in ends : \A j \in ends : i <= j
         IN  <<Slice(text, from, stop)>> \o SplitLines(text, stop)

(***************************************************************************)
(* The line source: the lines it may deliver.  A line is made of at most   *)
(* MaxWords words and ends with a newline; only the last line of the input *)
(* may lack it.                                                            *)
(***************************************************************************)
RECURSIVE Phrases(_, _)
Phrases(words, n) ==
    IF n = 0 THEN {<<>>}
    ELSE LET shorter == Phrases(words, n - 1)
         IN  shorter \cup {p \o w : p \in shorter, w \in words}

LinesOf(words) ==
    LET bodies == Phrases(words, MaxWords)
    IN  {b \o <<"\n">> : b \in bodies} \cup (bodies \ {<<>>})

\* statements at several indentations, brackets, comments, blank lines
StatementWords == {<<" ">>, <<"x">>, <<"(">>, <<")">>, <<"#">>}
StatementLines == LinesOf(StatementWords)

\* f-strings with expression parts, also unterminated, nested, over several
\* lines and within brackets
FstringWords == {<<"f", "'", "{">>, <<"}">>, <<"'">>, <<" ">>, <<"(">>}
FstringLines == LinesOf(FstringWords)

\* async, await and def as identifiers and as keywords, at several
\* indentations, next to a number
AsyncWords ==
    {<<"a", "s", "y", "n", "c", " ">>, <<"d", "e", "f", " ">>,
     <<"a", "w", "a", "i", "t", " ">>, <<" ">>, <<"1", " ">>}
AsyncLines == LinesOf(AsyncWords)

\* the same, next to a closing bracket
AsyncBracketWords ==
    {<<"a", "s", "y", "n", "c", " ">>, <<"d", "e", "f", " ">>,
     <<"a", "w", "a", "i", "t", " ">>, <<" ">>, <<")">>}
AsyncBracketLines == LinesOf(AsyncBracketWords)

\* strings over several lines: triple-quoted, continued by a backslash, with
\* an open expression part, within brackets, and backslash continuation lines
StringLines ==
    LinesOf({<<"'", "'", "'">>, <<"'">>, <<"\\">>, <<"(">>, <<"f", "'", "{">>})

\* f-strings with literal text after the expression part
FstringTextLines == LinesOf({<<"f", "'", "{">>, <<"}">>, <<"'">>, <<"x">>})

\* string openers with and without prefix, the prefixes with f in both cases
\* and behind r, single- and triple-quoted, with an expression part
PrefixLines ==
    LinesOf({<<"f">>, <<"F">>, <<"r", "f">>, <<"b">>, <<"'">>, <<"'", "'", "'">>, <<"{">>})

\* an async def, and blank lines and comment lines at several indentations
AsyncBlankLines ==
    LinesOf({<<"a", "s", "y", "n", "c", " ">>, <<"d", "e", "f", " ">>, <<" ">>, <<"#">>})

\* the lines the source of that name may deliver
LinesOfSource(source) ==
    CASE source = "statements" -> StatementLines
      [] source = "fstrings" -> FstringLines
      [] source = "async" -> AsyncLines
      [] source = "asyncbracket" -> AsyncBracketLines
      [] source = "strings" -> StringLines
      [] source = "fstringtext" -> FstringTextLines
      [] source = "twostatements" -> StatementLines
      [] source = "failing" -> StatementLines
      [] source = "prefixes" -> PrefixLines
      [] source = "asyncblank" -> AsyncBlankLines

(***************************************************************************)
(* The state machine.                                                      *)
(***************************************************************************)
VARIABLES
    \* the local variables of generate_tokens
    lnum, parenlev, fstring_level, continued, inside_fstring_braces, contstr,
    needcont, contline, indents, async_keywords, stashed, async_def,
    async_def_indent, async_def_nl, strstart, endprog_stack, line, pos,
    \* where the generator stands: "readline" (top of the loop over lines),
    \* "scan" (in the loop over the line), "eos" (after the loop over lines),
    \* "done" (exhausted) or "error" (it raised err)
    pc, err,
    \* the tokens yielded by the last step, in order
    out,
    \* the line source (the name of its set of lines) and the consumer of the
    \* tokens: "tokeneater", or "untokenize" with the state ut of its
    \* Untokenizer and the text read so far
    source, consumer, ut, text,
    \* what an observer of the token stream has seen so far
    seen,
    \* the local variables of detect_encoding: bom_found, default and first;
    \* where it stands: "first" (before its first call of readline),
    \* "second" (before its second call), "returned" (it returned result, the
    \* pair of the encoding and the list of lines) or "raised" (it raised
    \* SyntaxError with the message derr); and got, what the calls of
    \* read_or_stop have returned so far, in order
    bom_found, default, first, dpc, result, derr, got

tokenizer_vars ==
    <<lnum, parenlev, fstring_level, continued, inside_fstring_braces, contstr,
      needcont, contline, indents, async_keywords, stashed, async_def,
      async_def_indent, async_def_nl, strstart, endprog_stack, line, pos, pc, err, out>>
detect_vars == <<bom_found, default, first, dpc, result, derr, got>>
vars == <<tokenizer_vars, source, consumer, ut, text, seen, detect_vars>>

\* the local variables as one record
State ==
    [lnum |-> lnum, parenlev |-> parenlev, fstring_level |-> fstring_level,
     continued |-> continued, inside_fstring_braces |-> inside_fstring_braces,
     contstr |-> contstr, needcont |-> needcont, contline |-> contline,
     indents |-> indents, async_keywords |-> async_keywords, stashed |-> stashed,
     async_def |-> async_def, async_def_indent |-> async_def_indent,
     async_def_nl |-> async_def_nl, strstart |-> strstart,
     endprog_stack |-> endprog_stack, line |-> line, pos |-> pos, pc |-> pc,
     err |-> err, out |-> out]

\* (row, col) a stands before (row, col) b in the text
Before(a, b) == a[1] < b[1] \/ (a[1] = b[1] /\ a[2] < b[2])

\* the observer of the token stream: a tokeneater that keeps
\*   indents_open: INDENTs minus DEDENTs;  endmarkers: ENDMARKERs;
\*   after_end: tokens received after an ENDMARKER;
\*   order_broken: a token started before the token received just before it;
\*   fstack: for each f-string that is open (FSTRING_START without its
\*     FSTRING_END), LBRACEs minus RBRACEs since its start;
\*   fstring_unbalanced: an FSTRING_END came with that difference not 0, or
\*     with no f-string open, or a brace came with no f-string open;
\*   prev: the token received last, whether it was in the body of an async
\*     def, and whether it started before the token received before it (early);
\*   at_stmt_start: a NEWLINE (or nothing) and then only INDENT, DEDENT, NL and
\*     COMMENT were received;
\*   in_body, body_depth, body_nl: an async def was recognized and its body
\*     has not ended; indents_open at its def; the NEWLINE of its line came;
\*   async_misjudged, promotion_wrong: see AsyncJudgedWrongly, PromotedWrongly
NoToken ==
    [type |-> "NONE", string |-> <<>>, start |-> <<1, 0>>, in_body |-> FALSE,
     early |-> FALSE]

NewSeen ==
    [indents_open |-> 0, endmarkers |-> 0, after_end |-> 0,
     order_broken |-> FALSE, fstack |-> <<>>, fstring_unbalanced |-> FALSE,
     prev |-> NoToken, at_stmt_start |-> TRUE,
     in_body |-> FALSE, body_depth |-> 0, body_nl |-> FALSE,
     async_misjudged |-> FALSE, promotion_wrong |-> FALSE]

\* INDENT, DEDENT, NL and COMMENT stand between statements
IsLayout(t) == t.type \in {"INDENT", "DEDENT", "NL", "COMMENT"}

\* t is the first token of a statement that ends the body of the async def:
\* after the NEWLINE of the def line, at an indentation not deeper than it
EndsBody(o, t) ==
    /\ o.in_body /\ o.body_nl
    /\ o.at_stmt_start /\ ~IsLayout(t) /\ t.type \notin {"NEWLINE", "ENDMARKER"}
    /\ o.indents_open <= o.body_depth

\* t is in the body of an async def
InBody(o, t) == o.in_body /\ ~EndsBody(o, t)

\* t is the def of an async def that starts a body
StartsBody(o, t) ==
    /\ ~InBody(o, t)
    /\ t.type = "NAME" /\ t.string = DefText
    /\ o.prev.type = "ASYNC"

\* the f-string stack after t
FstackAfter(f, t) ==
    CASE t.type = "FSTRING_START" -> Append(f, 0)
      [] t.type = "LBRACE" /\ f # <<>> -> [f EXCEPT ![Len(f)] = @ + 1]
      [] t.type = "RBRACE" /\ f # <<>> -> [f EXCEPT ![Len(f)] = @ - 1]
      [] t.type = "FSTRING_END" /\ f # <<>> -> SubSeq(f, 1, Len(f) - 1)
      [] OTHER -> f

FstringUnbalanced(f, t) ==
    \/ t.type \in {"LBRACE", "RBRACE", "FSTRING_END"} /\ f = <<>>
    \/ t.type = "FSTRING_END" /\ f # <<>> /\ f[Len(f)] # 0

\* outside the body of an async def, without async_keywords: t shows that an
\* identifier async was judged wrongly:
\*   t is def or for, and the identifier async just before it came as a NAME;
\*   or the token before t is an ASYNC made of an identifier async that is not
\*   directly followed by def or for in the text (t is something else, or a
\*   token received before that ASYNC starts after it)
AsyncJudgedWrongly(o, t) ==
    LET p == o.prev
        def_or_for == t.type = "NAME" /\ t.string \in {DefText, ForText}
    IN  \/ /\ def_or_for /\ ~InBody(o, t)
           /\ p.type = "NAME" /\ p.string = AsyncText /\ ~p.in_body
           /\ Before(p.start, t.start)
        \/ /\ p.type = "ASYNC" /\ ~p.in_body
           /\ (~def_or_for \/ p.early)

\* without async_keywords: t shows that the promotion of async and await does
\* not follow the body of the async def:
\*   an identifier async or await in the body came as a NAME; or an await
\*   outside the body came as AWAIT; or an ASYNC outside the body is not
\*   followed by def or for
PromotedWrongly(o, t) ==
    \/ InBody(o, t) /\ t.type = "NAME" /\ t.string \in {AsyncText, AwaitText}
    \/ ~InBody(o, t) /\ t.type = "AWAIT"
    \/ /\ o.prev.type = "ASYNC" /\ ~o.prev.in_body
       /\ ~(t.type = "NAME" /\ t.string \in {DefText, ForText})

\* the observer after token t; ak is async_keywords
Observe(o, t, ak) ==
    LET in_body == InBody(o, t) \/ StartsBody(o, t) IN
    [indents_open |-> o.indents_open + (IF t.type = "INDENT" THEN 1
                                        ELSE IF t.type = "DEDENT" THEN -1 ELSE 0),
     endmarkers |-> o.endmarkers + (IF t.type = "ENDMARKER" THEN 1 ELSE 0),
     after_end |-> o.after_end + (IF o.endmarkers > 0 THEN 1 ELSE 0),
     order_broken |-> o.order_broken \/ Before(t.start, o.prev.start),
     fstack |-> FstackAfter(o.fstack, t),
     fstring_unbalanced |-> o.fstring_unbalanced \/ FstringUnbalanced(o.fstack, t),
     prev |-> [type |-> t.type, string |-> t.string, start |-> t.start,
               in_body |-> InBody(o, t), early |-> Before(t.start, o.prev.start)],
     at_stmt_start |-> IF t.type = "NEWLINE" THEN TRUE
                       ELSE IF IsLayout(t) THEN o.at_stmt_start ELSE FALSE,
     in_body |-> in_body,
     body_depth |-> IF StartsBody(o, t) THEN o.indents_open
                    ELSE IF in_body THEN o.body_depth ELSE 0,
     body_nl |-> IF StartsBody(o, t) THEN FALSE
                 ELSE IF in_body THEN o.body_nl \/ t.type = "NEWLINE" ELSE FALSE,
     async_misjudged |-> o.async_misjudged \/ (~ak /\ AsyncJudgedWrongly(o, t)),
     promotion_wrong |-> o.promotion_wrong \/ (~ak /\ PromotedWrongly(o, t))]

RECURSIVE ObserveAll(_, _, _)
ObserveAll(o, toks, ak) ==
    IF toks = <<>> THEN o ELSE ObserveAll(Observe(o, Head(toks), ak), Tail(toks), ak)

\* the variables after a step that leaves the generator in state n, having
\* read the text delivered (empty unless the step read a line)
Becomes(n, delivered) ==
    /\ lnum' = n.lnum
    /\ parenlev' = n.parenlev
    /\ fstring_level' = n.fstring_level
    /\ continued' = n.continued
    /\ inside_fstring_braces' = n.inside_fstring_braces
    /\ contstr' = n.contstr
    /\ needcont' = n.needcont
    /\ contline' = n.contline
    /\ indents' = n.indents
    /\ async_keywords' = n.async_keywords
    /\ stashed' = n.stashed
    /\ async_def' = n.async_def
    /\ async_def_indent' = n.async_def_indent
    /\ async_def_nl' = n.async_def_nl
    /\ strstart' = n.strstart
    /\ endprog_stack' = n.endprog_stack
    /\ line' = n.line
    /\ pos' = n.pos
    /\ pc' = n.pc
    /\ err' = n.err
    /\ out' = n.out
    /\ seen' = ObserveAll(seen, n.out, async_keywords)
    /\ ut' = IF consumer = "untokenize" THEN UntokenizeAll(ut, n.out)
             ELSE IF consumer = "compat" THEN CompatAll(ut, n.out)
             ELSE ut
    /\ text' = IF consumer = "untokenize" THEN text \o delivered ELSE text
    /\ UNCHANGED <<source, consumer, detect_vars>>

InitWith(src, cons) ==
    /\ \E ak \in BOOLEAN :
          LET s == InitialState(ak) IN
          /\ lnum = s.lnum
          /\ parenlev = s.parenlev
          /\ fstring_level = s.fstring_level
          /\ continued = s.continued
          /\ inside_fstring_braces = s.inside_fstring_braces
          /\ contstr = s.contstr
          /\ needcont = s.needcont
          /\ contline = s.contline
          /\ indents = s.indents
          /\ async_keywords = s.async_keywords
          /\ stashed = s.stashed
          /\ async_def = s.async_def
          /\ async_def_indent = s.async_def_indent
          /\ async_def_nl = s.async_def_nl
          /\ strstart = s.strstart
          /\ endprog_stack = s.endprog_stack
          /\ line = s.line
          /\ pos = s.pos
          /\ pc = s.pc
          /\ err = s.err
          /\ out = s.out
    /\ source = src
    /\ consumer = cons
    /\ ut = IF cons = "compat" THEN NewCompat ELSE NewUntokenizer
    /\ text = <<>>
    /\ seen = NewSeen
    /\ bom_found = FALSE
    /\ default = <<"u", "t", "f", "-", "8">>
    /\ first = <<>>
    /\ dpc = "first"
    /\ result = [encoding |-> <<>>, lines |-> <<>>]
    /\ derr = ""
    /\ got = <<>>

\* the number of lines that source delivers at most
MaxLinesOf(src) ==
    IF src \in {"fstrings", "strings", "fstringtext", "twostatements", "failing",
                "prefixes"}
    THEN MaxFstringLines ELSE MaxLines

\* what readline may return now: a line of the source, or "" for the end of
\* the input; only "" after the last line the source may deliver or after a
\* line without newline
Readable ==
    IF lnum < MaxLinesOf(source) /\ (lnum = 0 \/ EndsWith(line, <<"\n">>))
    THEN LinesOfSource(source) \cup {<<>>}
    ELSE {<<>>}

\* what the call readline() may do now: return a line (raised is empty),
\* raise StopIteration, or raise another exception; only the source "failing"
\* raises
Readline ==
    {[raised |-> "", line |-> l] : l \in Readable}
    \cup (IF source = "failing"
          THEN {[raised |-> e, line |-> <<>>] :
                   e \in {"StopIteration", "OSError", "UnicodeDecodeError"}}
          ELSE {})

\* an exception that no except clause of generate_tokens catches leaves the
\* generator as it is: nothing is yielded, the locals keep their values
Propagate(s, e) == [Raise(s, e, "", <<>>) EXCEPT !.out = <<>>]

\* try: line = readline(); except StopIteration: line = ""; then the turn of
\* the loop over lines with that line
TryReadline(s, r) ==
    IF r.raised = "" THEN ReadLineStep(s, r.line)
    ELSE IF r.raised = "StopIteration" THEN ReadLineStep(s, <<>>)
    ELSE Propagate(s, r.raised)

\* line = readline() and the top of the loop over lines
NextLine ==
    /\ pc = "readline"
    /\ \E r \in Readline : Becomes(TryReadline(State, r), r.line)

\* one turn of the loop over the line
NextToken ==
    /\ pc = "scan"
    /\ Becomes(ScanStep(State), <<>>)

\* the end of the stream
Finish ==
    /\ pc = "eos"
    /\ Becomes(EndOfStream(State), <<>>)

Next == NextLine \/ NextToken \/ Finish

\* statements, read by a plain consumer
Init == InitWith("statements", "tokeneater")
Spec == Init /\ [][Next]_vars

\* statements from a line source that may fail, read by a plain consumer
SpecFailing == InitWith("failing", "tokeneater") /\ [][Next]_vars

(***************************************************************************)
(* detect_encoding: the encoding of a source read as lines of bytes.  A    *)
(* line of bytes is a sequence of one-character strings, and of the names  *)
(* "EF", "BB", "BF" and "E9" for the bytes that are not ASCII.             *)
(***************************************************************************)
BOM_UTF8 == <<"EF", "BB", "BF">>

\* cookie_re = ^[ \t\f]*#.*?coding[:=][ \t]*([-\w.]+) matched at the start of
\* s: the text of its group, or the empty text if it does not match
cookie_re(s) ==
    LET p == Whitespace(s, 0)
        word == {"a", "b", "c", "d", "e", "f", "g", "h", "i", "j", "k", "l", "m",
                 "n", "o", "p", "q", "r", "s", "t", "u", "v", "w", "x", "y", "z",
                 "A", "B", "C", "D", "E", "F", "G", "H", "I", "J", "K", "L", "M",
                 "N", "O", "P", "Q", "R", "S", "T", "U", "V", "W", "X", "Y", "Z",
                 "0", "1", "2", "3", "4", "5", "6", "7", "8", "9", "_", "-", "."}
        \* the end of the run of characters of set from i on
        RunEnd(i, set) ==
            CHOOSE j \in i..Len(s) :
                /\ At(s, j) \notin set
                /\ \A m \in i..(j - 1) : At(s, m) \in set
        \* coding[:=][ \t]*[-\w.]+ matches at k, and .*? reaches k
        Matches(k) ==
            /\ StartsWithAt(s, k, <<"c", "o", "d", "i", "n", "g">>)
            /\ At(s, k + 6) \in {":", "="}
            /\ \A j \in (p + 1)..(k - 1) : At(s, j) # "\n"
            /\ At(s, RunEnd(k + 7, {" ", "\t"})) \in word
        ks == {k \in (p + 1)..Len(s) : Matches(k)}
    IN  IF At(s, p) # "#" \/ ks = {} THEN <<>>
        ELSE LET k == CHOOSE k \in ks : \A j \in ks : k <= j
                 q == RunEnd(k + 7, {" ", "\t"})
             IN  Slice(s, q, RunEnd(q, word))

\* blank_re = ^[ \t\f]*(?:[#\r\n]|$) matches at the start of s
blank_re(s) == At(s, Whitespace(s, 0)) \in {"#", "\r", "\n", ""}

\* _get_normal_name: orig_enc[:12].lower().replace("_", "-") decides
get_normal_name(orig_enc) ==
    LET lower == <<"a", "b", "c", "d", "e", "f", "g", "h", "i", "j", "k", "l", "m",
                   "n", "o", "p", "q", "r", "s", "t", "u", "v", "w", "x", "y", "z">>
        upper == <<"A", "B", "C", "D", "E", "F", "G", "H", "I", "J", "K", "L", "M",
                   "N", "O", "P", "Q", "R", "S", "T", "U", "V", "W", "X", "Y", "Z">>
        normal(c) == IF \E i \in 1..26 : upper[i] = c
                     THEN lower[CHOOSE i \in 1..26 : upper[i] = c]
                     ELSE IF c = "_" THEN "-" ELSE c
        enc == [i \in 1..Min(12, Len(orig_enc)) |-> normal(orig_enc[i])]
        utf8 == <<"u", "t", "f", "-", "8">>
        latin1 == <<"l", "a", "t", "i", "n", "-", "1">>
        iso8859 == <<"i", "s", "o", "-", "8", "8", "5", "9", "-", "1">>
        isolatin == <<"i", "s", "o", "-", "l", "a", "t", "i", "n", "-", "1">>
    IN  IF enc = utf8 \/ StartsWithAt(enc, 0, utf8 \o <<"-">>) THEN utf8
        ELSE IF \E n \in {latin1, iso8859, isolatin} :
                    enc = n \/ StartsWithAt(enc, 0, n \o <<"-">>)
        THEN iso8859
        ELSE orig_enc

\* codecs.lookup(encoding).name for the names get_normal_name can give here,
\* or the empty text for LookupError
lookup(enc) ==
    IF enc = <<"u", "t", "f", "-", "8">> THEN enc
    ELSE IF enc = <<"i", "s", "o", "-", "8", "8", "5", "9", "-", "1">>
    THEN <<"i", "s", "o", "8", "8", "5", "9", "-", "1">>
    ELSE <<>>

\* find_cookie(line) with the local bom: the encoding it returns (the empty
\* text for None), or the message of the SyntaxError it raises
find_cookie(ln, bom) ==
    LET none == [encoding |-> <<>>, raised |-> ""]
        group == cookie_re(ln)
        enc == get_normal_name(group)
    IN  IF \E i \in 1..Len(ln) : ln[i] \in {"EF", "BB", "BF", "E9"} THEN none
        ELSE IF group = <<>> THEN none
        ELSE IF lookup(enc) = <<>>
        THEN [encoding |-> <<>>, raised |-> "unknown encoding"]
        ELSE IF bom /\ lookup(enc) # <<"u", "t", "f", "-", "8">>
        THEN [encoding |-> <<>>, raised |-> "encoding problem: utf-8"]
        ELSE [encoding |-> IF bom THEN enc \o <<"-", "s", "i", "g">> ELSE enc,
              raised |-> ""]

\* what readline may do at a call of read_or_stop: return a line of bytes
\* (the first line of the source may start with the byte-order mark), or
\* raise StopIteration
ByteReadline(is_first) ==
    LET words == {<<"#">>, <<"#", "c", "o", "d", "i", "n", "g", ":">>,
                  <<"U", "T", "F", "_", "8">>, <<"l", "a", "t", "i", "n", "-", "1">>,
                  <<"z">>, <<" ">>, <<"E9">>}
        bodies == Phrases(words, MaxWords)
        plain == bodies \cup {b \o <<"\n">> : b \in bodies}
        lines == IF is_first THEN plain \cup {BOM_UTF8 \o l : l \in plain} ELSE plain
    IN  {[raised |-> FALSE, line |-> l] : l \in lines}
        \cup {[raised |-> TRUE, line |-> <<>>]}

\* read_or_stop: StopIteration is turned into the empty line
read_or_stop(r) == IF r.raised THEN <<>> ELSE r.line

\* ReadFirst with a plausible fault: the byte-order mark is found but left
\* on the first line
ReadFirstKeepingBom ==
    /\ dpc = "first"
    /\ \E r \in ByteReadline(TRUE) :
          LET read == read_or_stop(r)
              bom == StartsWithAt(read, 0, BOM_UTF8)
              stripped == read
              dflt == IF bom THEN <<"u", "t", "f", "-", "8", "-", "s", "i", "g">>
                      ELSE default
              cookie == find_cookie(stripped, bom)
          IN  /\ got' = Append(got, read)
              /\ bom_found' = bom
              /\ first' = stripped
              /\ default' = dflt
              /\ IF stripped = <<>>
                 THEN /\ dpc' = "returned" /\ UNCHANGED derr
                      /\ result' = [encoding |-> dflt, lines |-> <<>>]
                 ELSE IF cookie.raised # ""
                 THEN dpc' = "raised" /\ derr' = cookie.raised /\ UNCHANGED result
                 ELSE IF cookie.encoding # <<>>
                 THEN /\ dpc' = "returned" /\ UNCHANGED derr
                      /\ result' = [encoding |-> cookie.encoding, lines |-> <<stripped>>]
                 ELSE IF ~blank_re(stripped)
                 THEN /\ dpc' = "returned" /\ UNCHANGED derr
                      /\ result' = [encoding |-> dflt, lines |-> <<stripped>>]
                 ELSE dpc' = "second" /\ UNCHANGED <<result, derr>>
    /\ UNCHANGED <<tokenizer_vars, source, consumer, ut, text, seen>>

\* detect_encoding up to its second call of read_or_stop
ReadFirst ==
    /\ dpc = "first"
    /\ \E r \in ByteReadline(TRUE) :
          LET read == read_or_stop(r)
              bom == StartsWithAt(read, 0, BOM_UTF8)
              stripped == IF bom THEN Slice(read, 3, Len(read)) ELSE read
              dflt == IF bom THEN <<"u", "t", "f", "-", "8", "-", "s", "i", "g">>
                      ELSE default
              cookie == find_cookie(stripped, bom)
          IN  /\ got' = Append(got, read)
              /\ bom_found' = bom
              /\ first' = stripped
              /\ default' = dflt
              /\ IF stripped = <<>>
                 THEN /\ dpc' = "returned" /\ UNCHANGED derr
                      /\ result' = [encoding |-> dflt, lines |-> <<>>]
                 ELSE IF cookie.raised # ""
                 THEN dpc' = "raised" /\ derr' = cookie.raised /\ UNCHANGED result
                 ELSE IF cookie.encoding # <<>>
                 THEN /\ dpc' = "returned" /\ UNCHANGED derr
                      /\ result' = [encoding |-> cookie.encoding, lines |-> <<stripped>>]
                 ELSE IF ~blank_re(stripped)
                 THEN /\ dpc' = "returned" /\ UNCHANGED derr
                      /\ result' = [encoding |-> dflt, lines |-> <<stripped>>]
                 ELSE dpc' = "second" /\ UNCHANGED <<result, derr>>
    /\ UNCHANGED <<tokenizer_vars, source, consumer, ut, text, seen>>

\* detect_encoding from its second call of read_or_stop on
ReadSecond ==
    /\ dpc = "second"
    /\ \E r \in ByteReadline(FALSE) :
          LET second == read_or_stop(r)
              cookie == find_cookie(second, bom_found)
          IN  /\ got' = Append(got, second)
              /\ IF second = <<>>
                 THEN /\ dpc' = "returned" /\ UNCHANGED derr
                      /\ result' = [encoding |-> default, lines |-> <<first>>]
                 ELSE IF cookie.raised # ""
                 THEN dpc' = "raised" /\ derr' = cookie.raised /\ UNCHANGED result
                 ELSE IF cookie.encoding # <<>>
                 THEN /\ dpc' = "returned" /\ UNCHANGED derr
                      /\ result' = [encoding |-> cookie.encoding,
                                    lines |-> <<first, second>>]
                 ELSE /\ dpc' = "returned" /\ UNCHANGED derr
                      /\ result' = [encoding |-> default, lines |-> <<first, second>>]
    /\ UNCHANGED <<bom_found, default, first>>
    /\ UNCHANGED <<tokenizer_vars, source, consumer, ut, text, seen>>

\* detect_encoding on a source of lines of bytes
NextDetect == ReadFirst \/ ReadSecond
SpecDetect ==
    /\ InitWith("bytes", "detect_encoding")
    /\ [][NextDetect]_vars

\* f-strings, read by a plain consumer
InitFstring == InitWith("fstrings", "tokeneater")
SpecFstring == InitFstring /\ [][Next]_vars

\* async and await, read by a plain consumer
InitAsync == InitWith("async", "tokeneater")
SpecAsync == InitAsync /\ [][Next]_vars

\* async, await and closing brackets, read by a plain consumer
InitAsyncBracket == InitWith("asyncbracket", "tokeneater")
SpecAsyncBracket == InitAsyncBracket /\ [][Next]_vars

\* blank lines and comment lines around an async def, read by a plain consumer
SpecAsyncBlank == InitWith("asyncblank", "tokeneater") /\ [][Next]_vars

\* string openers with their prefixes, read by a plain consumer
SpecPrefix == InitWith("prefixes", "tokeneater") /\ [][Next]_vars

\* strings over several lines, read by a plain consumer
SpecString == InitWith("strings", "tokeneater") /\ [][Next]_vars

\* untokenize of the (type, string) pairs of generate_tokens(readline) over
\* statements
SpecCompat == InitWith("twostatements", "compat") /\ [][Next]_vars

\* untokenize(generate_tokens(readline)) over f-strings
InitRoundTrip == InitWith("fstrings", "untokenize")
SpecRoundTrip == InitRoundTrip /\ [][Next]_vars

(***************************************************************************)
(* The claims.                                                             *)
(***************************************************************************)
\* C1: a pass that ends without raising has emitted exactly one ENDMARKER, and
\* that ENDMARKER is its last token: no token of any kind is emitted after an
\* ENDMARKER.
C1_SingleEndmarker ==
    /\ seen.after_end = 0
    /\ seen.endmarkers <= 1
    /\ pc = "done" =>
          seen.endmarkers = 1 /\ out # <<>> /\ out[Len(out)].type = "ENDMARKER"

\* a pass over three lines has ended with DEDENTs and the ENDMARKER
C1_Witness ==
    pc = "done" /\ lnum > MaxLines /\ seen.endmarkers = 1 /\ Len(out) > 1

\* C2: when generate_tokens has completed on a text, untokenize of its
\* five-tuples has returned exactly that text.
C2_RoundTrip ==
    (consumer = "untokenize" /\ pc = "done") => (~ut.failed /\ ut.tokens = text)

\* C3: in a pass that ends with ENDMARKER as many DEDENTs as INDENTs were
\* emitted; the end of the stream emits exactly one DEDENT for each level above
\* zero on the indentation stack, directly before the ENDMARKER.
C3_IndentBalance ==
    pc = "done" =>
        LET k == Len(indents) - 1
            n == Len(out)
        IN  /\ seen.indents_open = 0
            /\ n >= k + 1
            /\ out[n].type = "ENDMARKER"
            /\ \A i \in (n - k)..(n - 1) : out[i].type = "DEDENT"
            /\ Cardinality({i \in 1..n : out[i].type = "DEDENT"}) = k

\* a pass has ended with two levels above zero on the stack
C3_Witness ==
    pc = "done" /\ Len(indents) = 3 /\ Len(out) = 3 /\ seen.indents_open = 0

\* C4: a step that emits INDENT or DEDENT (the DEDENTs of the end of the stream
\* too) is taken with paren_depth not above zero and not inside the braces of
\* an f-string.
C4_NoIndentInBrackets ==
    (\E i \in 1..Len(out) : out[i].type \in {"INDENT", "DEDENT"}) =>
        (~(parenlev > 0) /\ ~inside_fstring_braces)

\* a line that begins with a blank was read inside the braces of an f-string,
\* outside brackets, and is scanned as a continuation: no INDENT came
C4_Witness ==
    /\ inside_fstring_braces /\ parenlev = 0
    /\ lnum > 1 /\ pc = "scan" /\ pos = 0 /\ Len(line) > 1 /\ line[1] = " "
    /\ out = <<>>

\* C5: in a pass that ends with ENDMARKER every FSTRING_START was followed by
\* its FSTRING_END, and at each FSTRING_END the LBRACEs and RBRACEs since its
\* FSTRING_START were balanced.
C5_FstringBalance ==
    pc = "done" => (seen.fstack = <<>> /\ ~seen.fstring_unbalanced)

\* C6: along the stream the starts of the tokens never decrease (so a stashed
\* async comes before every token that begins after it).
C6_SourceOrder == ~seen.order_broken

\* C7: without async_keywords and outside the body of an async def, an
\* identifier async directly followed by def or for comes as ASYNC, and an
\* identifier async not directly followed by def or for comes as NAME.
C7_ContextualAsync == ~seen.async_misjudged

\* C8: without async_keywords, async and await in the body of an async def come
\* as ASYNC and AWAIT, and after the body has ended (a statement starts at an
\* indentation not deeper than the async def line, after its NEWLINE) await
\* comes as NAME and async is judged by what follows it.
C8_AsyncDefBody == ~seen.promotion_wrong

\* C9: every token other than INDENT, DEDENT and ENDMARKER ends after its start,
\* and when it starts and ends on one row its text is that slice of its line.
C9_SpanCoverage ==
    \A i \in 1..Len(out) :
        LET t == out[i] IN
        t.type \notin {"INDENT", "DEDENT", "ENDMARKER"} =>
            /\ Before(t.start, t.end)
            /\ t.start[1] = t.end[1] => t.string = Slice(t.line, t.start[2], t.end[2])

\* C10: the line terminator found by the scan of a line comes as NEWLINE if
\* and only if paren_depth is 0 and the scan is not inside the braces of an
\* f-string; otherwise it comes as NL.
C10_NewlineKind ==
    [][pc = "scan" =>
         \A i \in 1..Len(out') :
            out'[i].type \in {"NEWLINE", "NL"} =>
                (out'[i].type = "NEWLINE" <=> (parenlev = 0 /\ ~inside_fstring_braces))]_vars

\* the step reads the end of the input: readline returned ""
ReadsEof == pc = "readline" /\ lnum' = lnum + 1 /\ line' = <<>>

\* the step fails with TokenError("EOF in multi-line statement") and yields
\* no DEDENT and no ENDMARKER
FailsInStatement ==
    /\ pc' = "error"
    /\ err'.kind = "TokenError"
    /\ err'.msg = "EOF in multi-line statement"
    /\ \A i \in 1..Len(out') : out'[i].type \notin {"DEDENT", "ENDMARKER"}

\* C11: if the line source reports the end of the input while paren_depth is
\* non-zero, or directly after a line that ended with a backslash
\* continuation, or while inside_fstring_braces is true, the pass fails with
\* TokenError("EOF in multi-line statement") and emits no DEDENT or ENDMARKER
C11_EofInStatement ==
    [][(ReadsEof /\ (parenlev # 0 \/ continued # 0 \/ inside_fstring_braces))
          => FailsInStatement]_vars

\* C11 amended: the same, unless a multi-line string is pending (contstr
\* non-empty and not inside f-string braces): then the end of the input is
\* reported as the end of that string
C11_EofInStatementNoString ==
    [][(/\ ReadsEof
        /\ (parenlev # 0 \/ continued # 0 \/ inside_fstring_braces)
        /\ ~(contstr # <<>> /\ ~inside_fstring_braces))
          => FailsInStatement]_vars

\* C11 witness: the input ended directly after a backslash continuation line,
\* outside brackets and braces, and the pass failed in a multi-line statement
C11_Witness ==
    /\ pc = "error" /\ err.msg = "EOF in multi-line statement"
    /\ continued # 0 /\ parenlev = 0 /\ ~inside_fstring_braces /\ line = <<>>

\* where the pending string began: the row of the first of the lines held in
\* contstr, and the column at which contstr begins in contline
PendingStringStart ==
    LET newlines == Cardinality({i \in 1..Len(contstr) : contstr[i] = "\n"})
        rows == newlines + (IF EndsWith(contstr, <<"\n">>) THEN 0 ELSE 1)
    IN  <<lnum + 1 - rows, Len(contline) - Len(contstr)>>

\* C12: if the line source reports the end of the input while a multi-line
\* string is pending (contstr non-empty and not inside f-string braces), the
\* pass fails with TokenError("EOF in multi-line string") whose payload is a
\* (row, col) position in the text read, the position of the opening quote of
\* the pending string (for a string that is no f-string: where contstr began)
C12_EofInString ==
    [][(ReadsEof /\ contstr # <<>> /\ ~inside_fstring_braces)
          => /\ pc' = "error"
             /\ err'.kind = "TokenError"
             /\ err'.msg = "EOF in multi-line string"
             /\ Len(err'.at) = 2
             /\ err'.at[1] \in 1..lnum
             /\ fstring_level = 0 => err'.at = PendingStringStart]_vars

\* the step reads a line that starts a new statement: the tokenizer is in
\* new-statement mode and the line holds more than whitespace, a comment or
\* a line terminator
ReadsStatement ==
    /\ pc = "readline" /\ lnum' = lnum + 1
    /\ ~(contstr # <<>> /\ ~inside_fstring_braces)
    /\ parenlev = 0 /\ continued = 0 /\ ~inside_fstring_braces
    /\ LET m == MeasureIndent(line', 0, 0)
       IN  m.pos < Len(line') /\ line'[m.pos + 1] \notin {"#", "\r", "\n"}

\* the number of DEDENT tokens in toks
Dedents(toks) == Cardinality({i \in 1..Len(toks) : toks[i].type = "DEDENT"})

\* C13: when a new statement starts at a column smaller than the top of the
\* indentation stack: if the column is on the stack, the stack is popped until
\* its top equals the column, with exactly one DEDENT per popped level; if it
\* is not, the pass fails with IndentationError, no DEDENT is emitted for
\* that line and the stack is left unchanged
C13_Dedent ==
    [][LET column == MeasureIndent(line', 0, 0).column IN
       (ReadsStatement /\ column < indents[Len(indents)]) =>
          IF \E k \in 1..Len(indents) : indents[k] = column
          THEN /\ pc' # "error"
               /\ Len(indents') <= Len(indents)
               /\ indents' = SubSeq(indents, 1, Len(indents'))
               /\ indents'[Len(indents')] = column
               /\ Dedents(out') = Len(indents) - Len(indents')
          ELSE /\ pc' = "error"
               /\ err'.kind = "IndentationError"
               /\ Dedents(out') = 0
               /\ indents' = indents]_vars

\* C13 witness: the third line starts a statement at column 0 under two open
\* levels, and two DEDENTs were emitted for it
C13_Witness ==
    /\ lnum = 3 /\ pc = "scan" /\ indents = <<0>>
    /\ Len(out) = 2 /\ out[1].type = "DEDENT" /\ out[2].type = "DEDENT"

\* C14: a position of the line at which the master pattern matches no token
\* never raises: the scan reads the character at that position, which lies
\* within the line, emits it as an ERRORTOKEN of one character and advances
\* by one position
C14_ErrorToken ==
    [][LET f == FstringText(State)
           p == f.st.pos
       IN  (pc = "scan" /\ ~f.brk /\ ~pseudoprog(line, p).matched) =>
               /\ pc' # "error"
               /\ p < Len(line)
               /\ out' # <<>>
               /\ out'[Len(out')] = Tok("ERRORTOKEN", <<line[p + 1]>>, <<lnum, p>>,
                                        <<lnum, p + 1>>, line)
               /\ pos' = p + 1]_vars

\* f-strings with literal text, read by a consumer that keeps asking the
\* generator for its next token (for token_info in generate_tokens(readline)):
\* weak fairness of Next.  Next is enabled in every state of a pass that has
\* not stopped and in no other state, so WF_vars(Next) is written without
\* ENABLED: steps of Next keep happening, or the pass has stopped.
FairFstringText ==
    /\ InitWith("fstringtext", "tokeneater")
    /\ [][Next]_vars
    /\ ([]<><<Next>>_vars \/ <>[](pc \in {"done", "error"}))

\* the pass stops: with ENDMARKER as its last token, or with an error
Stops ==
    \/ pc = "done" /\ out # <<>> /\ out[Len(out)].type = "ENDMARKER"
    \/ pc = "error"

\* C15: over a line source that delivers finitely many lines and then
\* reports the end of the input, the pass stops, with ENDMARKER or with an
\* error; every step of the within-line scan that does not raise strictly
\* increases the scan position, and every turn of the loop over lines
\* consumes one line
C15_Termination ==
    /\ <>Stops
    /\ [][(pc = "scan" /\ pc' # "error") => pos' > pos]_vars
    /\ [][pc = "readline" => lnum' = lnum + 1]_vars

\* C15 amended: the same, but a step of the within-line scan may also leave
\* the scan of the line without a change of the position
C15_TerminationOrBreak ==
    /\ <>Stops
    /\ [][(pc = "scan" /\ pc' = "scan") => pos' > pos]_vars
    /\ [][(pc = "scan" /\ pc' = "readline") => pos' >= pos]_vars
    /\ [][pc = "readline" => lnum' = lnum + 1]_vars

\* C15 witness: a step of the scan left the line with the text of an
\* f-string pending, and the pass stopped with an error at the end of the input
C15_Witness ==
    /\ pc = "error" /\ line = <<>> /\ lnum = 2
    /\ contstr # <<>> /\ fstring_level > 0 /\ ~inside_fstring_braces

\* C16: for every input on which generate_tokens completes, with t1 the
\* (type, string) projection of its tokens: tokenizing untokenize(t1) again
\* completes, and its (type, string) projection is t1
C16_RoundTripLimited ==
    (consumer = "compat" /\ pc = "done") =>
        /\ ~ut.failed
        /\ LET again == generate_tokens(SplitLines(ut.tokens, 0), async_keywords)
           IN  /\ again.final.pc = "done"
               /\ Project(again.tokens) = ut.pairs


\* C17: paren_depth (parenlev) is non-negative in every reachable state of a
\* pass, whatever the input lines are, unmatched closing brackets included.
C17_ParenDepthNonNegative ==
    parenlev >= 0


\* the number of INDENT tokens in toks
Indents(toks) == Cardinality({i \in 1..Len(toks) : toks[i].type = "INDENT"})

\* C18: in every reachable state the indentation stack begins with 0 and is
\* strictly increasing; a step emits an INDENT exactly when it pushes a level
\* (one INDENT, one level, above the former top); and when the dedent handling
\* of a new statement has completed, the top of the stack is the column of
\* that statement
C18_IndentStack ==
    /\ [](/\ indents # <<>>
          /\ indents[1] = 0
          /\ \A k \in 1..(Len(indents) - 1) : indents[k] < indents[k + 1])
    /\ [][/\ Indents(out') <= 1
          /\ Indents(out') = 1 <=>
                 /\ Len(indents') = Len(indents) + 1
                 /\ SubSeq(indents', 1, Len(indents)) = indents
          /\ Len(indents') <= Len(indents) + 1]_vars
    /\ [][(ReadsStatement /\ pc' # "error") =>
              indents'[Len(indents')] = MeasureIndent(line', 0, 0).column]_vars

\* C18 witness: the line read starts a statement deeper than the one open
\* level; a second level was pushed at its column and one INDENT emitted
C18_Witness ==
    /\ pc = "scan" /\ Len(indents) = 3 /\ Indents(out) = 1
    /\ indents[3] = MeasureIndent(line, 0, 0).column
    /\ indents[2] < indents[3]


\* C19: when the line source raises anything other than the stop signal (the
\* step is a call of readline after which lnum += 1 was not reached), the
\* pass fails with a TokenError that carries a position (row, col); the stop
\* signal is treated exactly like an empty line: wherever a line may be read,
\* the turn of the loop is the same for both
C19_ReadlineFailure ==
    /\ [][(pc = "readline" /\ lnum' = lnum) =>
              /\ pc' = "error"
              /\ err'.kind = "TokenError"
              /\ Len(err'.at) = 2]_vars
    /\ [](pc = "readline" =>
              TryReadline(State, [raised |-> "StopIteration", line |-> <<>>])
                  = TryReadline(State, [raised |-> "", line |-> <<>>]))

C21_DetectOutcomes ==
    (dpc \in {"returned", "raised"}) =>
        LET bom == StartsWithAt(got[1], 0, BOM_UTF8)
            read == <<IF bom THEN Slice(got[1], 3, Len(got[1])) ELSE got[1]>>
                        \o Tail(got)
            last == read[Len(read)]
            codec == lookup(get_normal_name(cookie_re(last)))
            no_cookie == \A i \in 1..Len(read) : cookie_re(read[i]) = <<>>
            utf8 == <<"u", "t", "f", "-", "8">>
        IN  /\ (no_cookie /\ ~bom) =>
                   (dpc = "returned" /\ result.encoding = utf8)
            /\ (no_cookie /\ bom) =>
                   (dpc = "returned" /\ result.encoding = utf8 \o <<"-", "s", "i", "g">>)
            /\ (cookie_re(last) # <<>> /\ codec = <<>>) =>
                   (dpc = "raised" /\ derr = "unknown encoding")
            /\ (cookie_re(last) # <<>> /\ bom /\ codec \notin {<<>>, utf8}) =>
                   (dpc = "raised" /\ derr = "encoding problem: utf-8")
            /\ last = <<>> =>
                   (dpc = "returned" /\ Len(result.lines) = Len(got) - 1)


\* C22: a step that continues a pending multi-line string on a non-empty line
\* (contstr is not empty, not inside the braces of an f-string) finds the
\* terminator stack non-empty, its top being the recognizer of the quote that
\* opens the pending string: endprogs of a triple-quoted opener, the
\* recognizer of the single-quoted opener otherwise
C22_TerminatorOnTop ==
    [][(/\ pc = "readline" /\ lnum' = lnum + 1 /\ line' # <<>>
        /\ contstr # <<>> /\ ~inside_fstring_braces) =>
           /\ endprog_stack # <<>>
           /\ endprog_stack[Len(endprog_stack)] =
                  (IF triple_quoted(Slice(contstr, 0, 3))
                   THEN endprogs(Slice(contstr, 0, 3))
                   ELSE MaybeEndprog(Slice(contstr, 0, 3)))
           /\ pc' # "error" \/ err'.kind # "IndexError"]_vars


\* C23: at every line boundary the terminator stack holds one entry for each
\* open f-string (fstring_level entries) and one more while a plain string is
\* pending over lines (contstr opens with a quote that has no f prefix), and
\* nothing else; and when a pass in which every f-string that was opened was
\* closed has emitted ENDMARKER, the stack is empty and fstring_level is 0
C23_TerminatorStack ==
    /\ pc = "readline" =>
           Len(endprog_stack) =
               fstring_level
                 + (IF /\ contstr # <<>>
                       /\ \/ endprogs(Slice(contstr, 0, 3)) \in {"single3prog", "double3prog"}
                          \/ endprogs(Slice(contstr, 0, 1)) \in {"singleprog", "doubleprog"}
                    THEN 1 ELSE 0)
    /\ (pc = "done" /\ seen.fstack = <<>> /\ contstr = <<>>) =>
           (endprog_stack = <<>> /\ fstring_level = 0)


\* the token types of toks from the first FSTRING_START to the first
\* FSTRING_END after it, or to the end of toks
FstringKinds(toks) ==
    LET starts == {i \in 1..Len(toks) : toks[i].type = "FSTRING_START"}
        from == CHOOSE i \in starts : \A j \in starts : i <= j
        ends == {i \in from..Len(toks) : toks[i].type = "FSTRING_END"}
        to == IF ends = {} THEN Len(toks) ELSE CHOOSE i \in ends : \A j \in ends : i <= j
    IN  IF starts = {} THEN <<>> ELSE [i \in 1..(to - from + 1) |-> toks[from + i - 1].type]

\* C24: the } that returns the nesting of brackets to its level at the LBRACE
\* closes the expression part of the f-string, at any depth of brackets
\* around the f-string: when the scan stands at a } directly after the
\* LBRACE, it emits RBRACE, clears inside_fstring_braces and leaves parenlev
\* unchanged; and a line that is an f-string closed on that line yields the
\* same token types, from FSTRING_START to FSTRING_END, when an opening
\* bracket is put before it
C24_RbraceAtAnyDepth ==
    /\ [][(/\ pc = "scan" /\ inside_fstring_braces
           /\ out # <<>> /\ out[Len(out)].type = "LBRACE"
           /\ At(line, Whitespace(line, pos)) = "}") =>
              /\ pc' # "error"
              /\ Len(out') = 1 /\ out'[1].type = "RBRACE"
              /\ ~inside_fstring_braces'
              /\ parenlev' = parenlev]_vars
    /\ [](LET alone == FstringKinds(generate_tokens(<<line>>, async_keywords).tokens)
          IN  (/\ lnum = 1 /\ pc = "scan" /\ pos = 0 /\ StartsWithAt(line, 0, <<"f">>)
               /\ alone # <<>> /\ alone[Len(alone)] = "FSTRING_END") =>
                  FstringKinds(generate_tokens(<<<<"(">> \o line>>, async_keywords).tokens)
                      = alone)


\* C25: when the scan, outside the literal text of an f-string, takes a token
\* that begins with a string prefix and a quote: if the prefix holds f or F
\* the step emits FSTRING_START first, then FSTRING_MIDDLE and FSTRING_END or
\* LBRACE if the text goes on, and fstring_level is one higher unless the
\* FSTRING_END was emitted too; if the prefix holds no f, the step emits one
\* STRING token at most and nothing else
C25_FstringPrefixes ==
    [][LET m == pseudoprog(line, pos)
           tok == Slice(line, m.start, m.end)
           with_f == \E n \in 1..2 :
                         Slice(tok, 0, n) \in FstringPrefixes /\ At(tok, n) \in Quotes
           without_f == \E n \in 0..2 :
                            Slice(tok, 0, n) \in LitPrefixes /\ At(tok, n) \in Quotes
           kinds == [i \in 1..Len(out') |-> out'[i].type]
       IN  (/\ pc = "scan" /\ ~(fstring_level > 0 /\ ~inside_fstring_braces)
            /\ m.matched /\ pc' # "error") =>
               /\ with_f =>
                      /\ kinds \in {<<"FSTRING_START">>,
                                    <<"FSTRING_START", "FSTRING_MIDDLE", "FSTRING_END">>,
                                    <<"FSTRING_START", "FSTRING_MIDDLE", "LBRACE">>}
                      /\ fstring_level' =
                             fstring_level + (IF Len(kinds) = 3 /\ kinds[3] = "FSTRING_END"
                                              THEN 0 ELSE 1)
               /\ without_f =>
                      /\ kinds \in {<<>>, <<"STRING">>}
                      /\ fstring_level' = fstring_level]_vars


C27_NeedcontCleared ==
    /\ [](needcont # 0 =>
              /\ contstr # <<>>
              /\ ~triple_quoted(Slice(contstr, 0, 3))
              /\ \E n \in 0..2 : At(contstr, n) \in Quotes)
    /\ [][(contstr # <<>> /\ contstr' = <<>>) => needcont' = 0]_vars
    /\ [][(/\ pc = "readline" /\ lnum' = lnum + 1 /\ line' # <<>>
           /\ contstr # <<>> /\ ~inside_fstring_braces
           /\ triple_quoted(Slice(contstr, 0, 3))) =>
              \A i \in 1..Len(out') : out'[i].type # "ERRORTOKEN"]_vars


\* C28: the stash is empty or holds exactly one NAME token with the text
\* async; it is empty whenever async_keywords or async_def is true, and in
\* those states the scan emits an identifier async or await at once as ASYNC
\* or AWAIT; it is empty when ENDMARKER has been emitted; and the step that
\* takes a token out of the stash yields it, as NAME or as ASYNC
C28_Stash ==
    /\ [](/\ stashed # <<>> =>
                 /\ Len(stashed) = 1
                 /\ stashed[1].type = "NAME" /\ stashed[1].string = AsyncText
          /\ (async_keywords \/ async_def) => stashed = <<>>
          /\ pc = "done" => stashed = <<>>)
    /\ [][LET m == pseudoprog(line, pos)
              token == Slice(line, m.start, m.end)
          IN  (/\ pc = "scan" /\ (async_keywords \/ async_def)
               /\ ~(fstring_level > 0 /\ ~inside_fstring_braces)
               /\ m.matched /\ token \in {AsyncText, AwaitText}) =>
                  /\ Len(out') = 1
                  /\ out'[1].type = (IF token = AsyncText THEN "ASYNC" ELSE "AWAIT")
                  /\ out'[1].string = token
                  /\ stashed' = <<>>]_vars
    /\ [][(stashed # <<>> /\ stashed' # stashed) =>
              /\ stashed' = <<>>
              /\ \E i \in 1..Len(out') :
                     /\ out'[i].type \in {"NAME", "ASYNC"}
                     /\ out'[i].string = AsyncText
                     /\ out'[i].start = stashed[1].start]_vars

\* C28 witness: a pass whose last token before the end of the text was a
\* stashed async has ended: the token came out as NAME before ENDMARKER
C28_Witness ==
    /\ pc = "done" /\ stashed = <<>> /\ ~async_keywords
    /\ Len(out) = 2
    /\ out[1].type = "NAME" /\ out[1].string = AsyncText
    /\ out[2].type = "ENDMARKER"

====
